---- MODULE Spec2Model ----
(***************************************************************************)
(* Model of backend/agents.py: the rate-limit classifier                   *)
(* (RateLimitHandler), the retrying LLM invocation                         *)
(* (AgenticRecommendationSystem._invoke_llm_with_retry), the scoring of a  *)
(* card (calculate_card_value), get_recommendation and the explanation it  *)
(* composes (_build_enhanced_explanation).                                 *)
(*                                                                         *)
(* Text is a sequence of one-character strings, so that lower-casing,      *)
(* substring search and the regular expression are computed as Python      *)
(* computes them.  Time is counted in ticks of 1/Scale second, which makes *)
(* every backoff duration base_wait * 1.5^attempt an integer.  Amounts of  *)
(* money and of points are Python floats, computed with their rounding.    *)
(* Two invocations on the one agentic_system are the running one, in the   *)
(* variables of the invocation, and the other one, whose locals are kept   *)
(* in `other` until the scheduler switches to it.                          *)
(***************************************************************************)
EXTENDS Integers, Sequences, FiniteSets, TLC

\* ------------------------------------------------------------------ bounds
\* largest max_retries a caller passes
MaxRetriesBound == 3
\* number of phrases joined into one error text of the classifier check
MaxFrags == 2

\* --------------------------------------------------------- text primitives
UpperLetters ==
  <<"A","B","C","D","E","F","G","H","I","J","K","L","M",
    "N","O","P","Q","R","S","T","U","V","W","X","Y","Z">>

LowerLetters ==
  <<"a","b","c","d","e","f","g","h","i","j","k","l","m",
    "n","o","p","q","r","s","t","u","v","w","x","y","z">>

Digits == <<"0","1","2","3","4","5","6","7","8","9">>

\* str.lower() on one character
lower_char(c) ==
  IF \E i \in 1..26 : UpperLetters[i] = c
    THEN LowerLetters[CHOOSE i \in 1..26 : UpperLetters[i] = c]
    ELSE c

\* str.lower()
lower(s) == [i \in 1..Len(s) |-> lower_char(s[i])]

\* Python's  p in s  on strings
Contains(s, p) ==
  \E i \in 1..(Len(s) - Len(p) + 1) : SubSeq(s, i, i + Len(p) - 1) = p

IsDigit(c) == \E d \in 1..10 : Digits[d] = c

DigitValue(c) == (CHOOSE d \in 1..10 : Digits[d] = c) - 1

\* length of the longest run of digits of s that starts at position i (\d+ is greedy)
RECURSIVE DigitRun(_, _)
DigitRun(s, i) ==
  IF i <= Len(s) /\ IsDigit(s[i]) THEN 1 + DigitRun(s, i + 1) ELSE 0

\* int() of a string of decimal digits
RECURSIVE int(_)
int(s) ==
  IF Len(s) = 0 THEN 0
  ELSE 10 * int(SubSeq(s, 1, Len(s) - 1)) + DigitValue(s[Len(s)])

\* s.split('.')[0]
RECURSIVE split_dot_first(_)
split_dot_first(s) ==
  IF Len(s) = 0 \/ s[1] = "." THEN <<>>
  ELSE <<s[1]>> \o split_dot_first(Tail(s))

\* int(s) raises ValueError: s is empty or holds a character that is no digit
int_raises(s) == Len(s) = 0 \/ \E i \in 1..Len(s) : ~IsDigit(s[i])

\* ------------------------------------------------------------ the patterns
TOKENS_PER_DAY == <<"t","o","k","e","n","s"," ","p","e","r"," ","d","a","y">>
TPD == <<"t","p","d">>
REQUESTS_PER_MINUTE ==
  <<"r","e","q","u","e","s","t","s"," ","p","e","r"," ","m","i","n","u","t","e">>
RPM == <<"r","p","m">>
TRY_AGAIN_IN == <<"t","r","y"," ","a","g","a","i","n"," ","i","n"," ">>

\* the regular expression  try again in (\d+)m(\d+)  anchored at position i
MatchAt(s, i) ==
  LET j  == i + Len(TRY_AGAIN_IN)
      n1 == DigitRun(s, j)
      k  == j + n1
  IN  /\ i + Len(TRY_AGAIN_IN) - 1 <= Len(s)
      /\ SubSeq(s, i, j - 1) = TRY_AGAIN_IN
      /\ n1 >= 1
      /\ k <= Len(s)
      /\ s[k] = "m"
      /\ DigitRun(s, k + 1) >= 1

\* re.search: the leftmost match, as <<group(1), group(2)>>; <<>> is no match
time_match(s) ==
  IF \E i \in 1..Len(s) : MatchAt(s, i)
    THEN LET i  == CHOOSE x \in 1..Len(s) :
                     MatchAt(s, x) /\ \A y \in 1..(x - 1) : ~MatchAt(s, y)
             j  == i + Len(TRY_AGAIN_IN)
             n1 == DigitRun(s, j)
             k  == j + n1
             n2 == DigitRun(s, k + 1)
         IN  <<SubSeq(s, j, k - 1), SubSeq(s, k + 1, k + n2)>>
    ELSE <<>>

\* ------------------------------------------------------- RateLimitHandler
\* Python's None, and a present value x
None == <<>>
Some(x) == <<x>>

DAILY_MESSAGE == "Daily token limit reached. Service unavailable until reset."
RPM_MESSAGE == "Rate limit: too many requests. Retrying in {wait_seconds}s."
UNKNOWN_MESSAGE == "Rate limit encountered. Retrying in 30s."

\* parse_rate_limit_error testing the per-minute marker before the daily one
parse_rate_limit_error_rpm_first(error_message) ==
  LET error_lower == lower(error_message)
  IN  IF Contains(error_lower, REQUESTS_PER_MINUTE) \/ Contains(error_lower, RPM)
        THEN LET m == time_match(error_message)
                 wait_seconds ==
                   IF m # <<>>
                     THEN int(m[1]) * 60 + int(split_dot_first(m[2]))
                     ELSE 60
             IN  [type |-> "requests_per_minute",
                  is_recoverable |-> TRUE,
                  wait_seconds |-> Some(wait_seconds),
                  message |-> RPM_MESSAGE]
      ELSE IF Contains(error_lower, TOKENS_PER_DAY) \/ Contains(error_lower, TPD)
        THEN [type |-> "daily_token_limit",
              is_recoverable |-> FALSE,
              wait_seconds |-> None,
              message |-> DAILY_MESSAGE]
      ELSE [type |-> "unknown",
            is_recoverable |-> TRUE,
            wait_seconds |-> Some(30),
            message |-> UNKNOWN_MESSAGE]

\* parse_rate_limit_error adding the minutes to the seconds unconverted
parse_rate_limit_error_minutes_unscaled(error_message) ==
  LET error_lower == lower(error_message)
  IN  IF Contains(error_lower, TOKENS_PER_DAY) \/ Contains(error_lower, TPD)
        THEN [type |-> "daily_token_limit",
              is_recoverable |-> FALSE,
              wait_seconds |-> None,
              message |-> DAILY_MESSAGE]
      ELSE IF Contains(error_lower, REQUESTS_PER_MINUTE) \/ Contains(error_lower, RPM)
        THEN LET m == time_match(error_message)
                 wait_seconds ==
                   IF m # <<>>
                     THEN int(m[1]) + int(split_dot_first(m[2]))
                     ELSE 60
             IN  [type |-> "requests_per_minute",
                  is_recoverable |-> TRUE,
                  wait_seconds |-> Some(wait_seconds),
                  message |-> RPM_MESSAGE]
      ELSE [type |-> "unknown",
            is_recoverable |-> TRUE,
            wait_seconds |-> Some(30),
            message |-> UNKNOWN_MESSAGE]

\* parse_rate_limit_error giving unknown errors the 60 s default of the per-minute rule
parse_rate_limit_error_unknown_60(error_message) ==
  LET error_lower == lower(error_message)
  IN  IF Contains(error_lower, TOKENS_PER_DAY) \/ Contains(error_lower, TPD)
        THEN [type |-> "daily_token_limit",
              is_recoverable |-> FALSE,
              wait_seconds |-> None,
              message |-> DAILY_MESSAGE]
      ELSE IF Contains(error_lower, REQUESTS_PER_MINUTE) \/ Contains(error_lower, RPM)
        THEN LET m == time_match(error_message)
                 wait_seconds ==
                   IF m # <<>>
                     THEN int(m[1]) * 60 + int(split_dot_first(m[2]))
                     ELSE 60
             IN  [type |-> "requests_per_minute",
                  is_recoverable |-> TRUE,
                  wait_seconds |-> Some(wait_seconds),
                  message |-> RPM_MESSAGE]
      ELSE [type |-> "unknown",
            is_recoverable |-> TRUE,
            wait_seconds |-> Some(60),
            message |-> UNKNOWN_MESSAGE]

\* parse_rate_limit_error leaving the wait of an unknown error unset
parse_rate_limit_error_unknown_no_wait(error_message) ==
  LET error_lower == lower(error_message)
  IN  IF Contains(error_lower, TOKENS_PER_DAY) \/ Contains(error_lower, TPD)
        THEN [type |-> "daily_token_limit",
              is_recoverable |-> FALSE,
              wait_seconds |-> None,
              message |-> DAILY_MESSAGE]
      ELSE IF Contains(error_lower, REQUESTS_PER_MINUTE) \/ Contains(error_lower, RPM)
        THEN LET m == time_match(error_message)
                 wait_seconds ==
                   IF m # <<>>
                     THEN int(m[1]) * 60 + int(split_dot_first(m[2]))
                     ELSE 60
             IN  [type |-> "requests_per_minute",
                  is_recoverable |-> TRUE,
                  wait_seconds |-> Some(wait_seconds),
                  message |-> RPM_MESSAGE]
      ELSE [type |-> "unknown",
            is_recoverable |-> TRUE,
            wait_seconds |-> None,
            message |-> UNKNOWN_MESSAGE]

parse_rate_limit_error(error_message) ==
  LET error_lower == lower(error_message)
  IN  IF Contains(error_lower, TOKENS_PER_DAY) \/ Contains(error_lower, TPD)
        THEN [type |-> "daily_token_limit",
              is_recoverable |-> FALSE,
              wait_seconds |-> None,
              message |-> DAILY_MESSAGE]
      ELSE IF Contains(error_lower, REQUESTS_PER_MINUTE) \/ Contains(error_lower, RPM)
        THEN LET m == time_match(error_message)
                 wait_seconds ==
                   IF m # <<>>
                     THEN int(m[1]) * 60 + int(split_dot_first(m[2]))
                     ELSE 60
             IN  [type |-> "requests_per_minute",
                  is_recoverable |-> TRUE,
                  wait_seconds |-> Some(wait_seconds),
                  message |-> RPM_MESSAGE]
      ELSE [type |-> "unknown",
            is_recoverable |-> TRUE,
            wait_seconds |-> Some(30),
            message |-> UNKNOWN_MESSAGE]

\* parse_rate_limit_error raises instead of returning: one of its int() calls fails
parse_raises(error_message) ==
  LET error_lower == lower(error_message)
      m == time_match(error_message)
  IN  /\ ~(Contains(error_lower, TOKENS_PER_DAY) \/ Contains(error_lower, TPD))
      /\ Contains(error_lower, REQUESTS_PER_MINUTE) \/ Contains(error_lower, RPM)
      /\ m # <<>>
      /\ int_raises(m[1]) \/ int_raises(split_dot_first(m[2]))

\* should_retry without its is_recoverable test
should_retry_any_error(error_info, attempt, max_retries) ==
  IF attempt >= max_retries THEN FALSE
  ELSE TRUE

\* should_retry with the attempt test off by one
should_retry_one_more(error_info, attempt, max_retries) ==
  IF ~error_info.is_recoverable THEN FALSE
  ELSE IF attempt > max_retries THEN FALSE
  ELSE TRUE

should_retry(error_info, attempt, max_retries) ==
  IF ~error_info.is_recoverable THEN FALSE
  ELSE IF attempt >= max_retries THEN FALSE
  ELSE TRUE


RECURSIVE Pow(_, _)
Pow(b, e) == IF e = 0 THEN 1 ELSE b * Pow(b, e - 1)

\* ticks per second: 1.5^attempt has denominator 2^attempt
Scale == Pow(2, MaxRetriesBound)

\* wait_with_backoff doubling the wait: base_wait * (2 ** attempt)
wait_with_backoff_doubling(error_info, attempt) ==
  LET base_wait == error_info.wait_seconds[1]
  IN  base_wait * Pow(2, attempt) * Scale

\* wait_time of wait_with_backoff, in ticks: base_wait * (1.5 ** attempt)
wait_with_backoff(error_info, attempt) ==
  LET base_wait == error_info.wait_seconds[1]
  IN  (base_wait * Pow(3, attempt) * Scale) \div Pow(2, attempt)

\* ------------------------------------------------------------------ inputs
\* phrases that error texts of the service are made of
Phrases ==
  << <<"t","o","k","e","n","s"," ","p","e","r"," ","d","a","y">>,
     <<"T","P","D">>,
     <<"r","e","q","u","e","s","t","s"," ","p","e","r"," ","m","i","n","u","t","e">>,
     <<"R","P","M">>,
     <<"t","r","y"," ","a","g","a","i","n"," ","i","n"," ","1","m","1","5","s">>,
     <<"t","r","y"," ","a","g","a","i","n"," ","i","n"," ","5","m","3","8",".","6","8","8","s">>,
     <<"T","r","y"," ","a","g","a","i","n"," ","i","n"," ","2","m","5","s">>,
     <<"t","r","y"," ","a","g","a","i","n"," ","i","n"," ","4","5","s">>,
     <<"R","a","t","e"," ","l","i","m","i","t"," ","r","e","a","c","h","e","d">> >>

\* the phrases ids[1], ids[2], ... joined by single spaces
RECURSIVE Join(_)
Join(ids) ==
  IF Len(ids) = 0 THEN <<>>
  ELSE IF Len(ids) = 1 THEN Phrases[ids[1]]
  ELSE Phrases[ids[1]] \o <<" ">> \o Join(Tail(ids))

\* every error text of at most MaxFrags phrases
Texts ==
  {Join(ids) : ids \in UNION {[1..k -> 1..Len(Phrases)] : k \in 0..MaxFrags}}

\* the error texts str(e) of the RateLimitError the service raises
ServiceErrors ==
  {Join(<<9, 1, 2, 6>>), Join(<<9, 3, 4, 5>>), Join(<<9, 3, 4>>), Join(<<9>>)}

\* result['text'] of a successful call
Replies == {"Use it.", " Card B is the one to use for this purchase. "}

\* overall deadlines of the caller, in ticks
Deadlines == {45 * Scale, 200 * Scale}

\* ------------------------------------------------------------------- state
VARIABLES
  pc,             \* "calling", "sleeping", "done"; "parse", "parsed" for the classifier alone
  max_retries,    \* argument of _invoke_llm_with_retry
  attempt,        \* loop variable of _invoke_llm_with_retry
  error_message,  \* str(e) of the last RateLimitError / the classifier's argument
  error_info,     \* result of parse_rate_limit_error
  wait_time,      \* argument of the time.sleep in progress, in ticks
  returned,       \* None, or Some(result) once the call has returned
  raised,         \* "" or the message of the RuntimeError raised
  history,        \* the service calls and sleeps so far, in order
  now,            \* ticks elapsed since the call started
  deadline,       \* the caller's deadline, in ticks
  cancelled,      \* the caller has cancelled the request
  transaction_data, \* argument of get_recommendation / of calculate_card_value
  user_cards,     \* argument of get_recommendation: the list of card dicts
  llm,            \* self.llm is set: the Groq client was built
  card_scores,    \* the list card_scores of get_recommendation
  response,       \* None, or Some(dict) once get_recommendation has returned
  other           \* None, or Some(locals) of a concurrent _invoke_llm_with_retry

\* the state of get_recommendation around the invocation
rec_vars == <<transaction_data, user_cards, llm, card_scores, response>>

vars == <<pc, max_retries, attempt, error_message, error_info, wait_time,
          returned, raised, history, now, deadline, cancelled, rec_vars, other>>

\* no request: _invoke_llm_with_retry or parse_rate_limit_error called on its own
NoRequest ==
  /\ transaction_data = <<>>
  /\ user_cards = <<>>
  /\ llm = TRUE
  /\ card_scores = <<>>
  /\ response = None
  /\ other = None

NoInfo ==
  [type |-> "none", is_recoverable |-> FALSE, wait_seconds |-> None, message |-> ""]

QUOTA_ERROR ==
  "AI service unavailable: {error_info[message]} Please try again later or contact support."
EXHAUSTED_ERROR ==
  "AI service temporarily unavailable after {max_retries} retry attempts. Please try again in a few minutes."
SERVICE_ERROR == "AI service error: {e}"
UNEXPECTED_ERROR == "Unexpected error in LLM retry logic"
TYPE_ERROR == "TypeError: unsupported operand type(s) for *: 'NoneType' and 'float'"

VALUE_ERROR == "ValueError: invalid literal for int() with base 10"

\* errors the code does not have: a deadline that ran out, a cancelled request
DEADLINE_EXCEEDED == "DeadlineExceeded"
CANCELLED == "Cancelled"

Entry(op, outcome, info, ticks) ==
  [op |-> op, attempt |-> attempt, outcome |-> outcome, info |-> info,
   ticks |-> ticks, at |-> now, cancelled |-> cancelled]

\* ------------------------------------------------- _invoke_llm_with_retry
Init ==
  /\ pc = "calling"
  /\ max_retries \in 0..MaxRetriesBound
  /\ attempt = 0
  /\ error_message = <<>>
  /\ error_info = NoInfo
  /\ wait_time = 0
  /\ returned = None
  /\ raised = ""
  /\ history = <<>>
  /\ now = 0
  /\ deadline \in Deadlines
  /\ cancelled = FALSE
  /\ NoRequest

\* recommendation_chain.invoke returns: return result
chain_invoke_returns ==
  /\ pc = "calling"
  /\ \E reply \in Replies :
       /\ returned' = Some(reply)
       /\ history' = Append(history, Entry("invoke", reply, NoInfo, 0))
  /\ pc' = "done"
  /\ UNCHANGED <<max_retries, attempt, error_message, error_info, wait_time,
                 raised, now, deadline, cancelled>>
  /\ UNCHANGED <<rec_vars, other>>

\* except_RateLimitError retrying at once, without the backoff sleep
except_RateLimitError_no_sleep ==
  /\ pc = "calling"
  /\ \E text \in ServiceErrors :
       LET info == parse_rate_limit_error(text)
       IN  /\ error_message' = text
           /\ error_info' = info
           /\ history' = Append(history, Entry("invoke", "RateLimitError", info, 0))
           /\ IF ~should_retry(info, attempt, max_retries)
                THEN /\ pc' = "done"
                     /\ raised' = IF ~info.is_recoverable
                                    THEN QUOTA_ERROR ELSE EXHAUSTED_ERROR
                     /\ attempt' = attempt
                ELSE /\ pc' = "calling"
                     /\ raised' = raised
                     /\ attempt' = attempt + 1
  /\ UNCHANGED <<max_retries, wait_time, returned, now, deadline, cancelled>>
  /\ UNCHANGED <<rec_vars, other>>

\* except_RateLimitError giving up when the backoff would end after the deadline
except_RateLimitError_deadline ==
  /\ pc = "calling"
  /\ \E text \in ServiceErrors :
       LET info == parse_rate_limit_error(text)
       IN  /\ error_message' = text
           /\ error_info' = info
           /\ history' = Append(history, Entry("invoke", "RateLimitError", info, 0))
           /\ IF ~should_retry(info, attempt, max_retries)
                THEN /\ pc' = "done"
                     /\ raised' = IF ~info.is_recoverable
                                    THEN QUOTA_ERROR ELSE EXHAUSTED_ERROR
                     /\ wait_time' = 0
              ELSE IF now + wait_with_backoff(info, attempt) > deadline
                THEN /\ pc' = "done"
                     /\ raised' = DEADLINE_EXCEEDED
                     /\ wait_time' = 0
              ELSE /\ pc' = "sleeping"
                   /\ raised' = raised
                   /\ wait_time' = wait_with_backoff(info, attempt)
  /\ UNCHANGED <<max_retries, attempt, returned, now, deadline, cancelled>>
  /\ UNCHANGED <<rec_vars, other>>

\* except_RateLimitError testing the attempts before the kind of the error
except_RateLimitError_attempts_first ==
  /\ pc = "calling"
  /\ \E text \in ServiceErrors :
       LET info == parse_rate_limit_error(text)
       IN  /\ error_message' = text
           /\ error_info' = info
           /\ history' = Append(history, Entry("invoke", "RateLimitError", info, 0))
           /\ IF ~should_retry(info, attempt, max_retries)
                THEN /\ pc' = "done"
                     /\ raised' = IF attempt >= max_retries
                                    THEN EXHAUSTED_ERROR ELSE QUOTA_ERROR
                     /\ wait_time' = 0
              ELSE IF info.wait_seconds = None
                THEN /\ pc' = "done"
                     /\ raised' = TYPE_ERROR
                     /\ wait_time' = 0
              ELSE /\ pc' = "sleeping"
                   /\ raised' = raised
                   /\ wait_time' = wait_with_backoff(info, attempt)
  /\ UNCHANGED <<max_retries, attempt, returned, now, deadline, cancelled>>
  /\ UNCHANGED <<rec_vars, other>>

\* except_RateLimitError keeping the classification of the first rate-limit
\* error of the invocation for the later ones
except_RateLimitError_first_info ==
  /\ pc = "calling"
  /\ \E text \in ServiceErrors :
       LET info == IF error_info = NoInfo THEN parse_rate_limit_error(text)
                   ELSE error_info
       IN  /\ error_message' = text
           /\ error_info' = info
           /\ history' = Append(history, Entry("invoke", "RateLimitError", info, 0))
           /\ IF ~should_retry(info, attempt, max_retries)
                THEN /\ pc' = "done"
                     /\ raised' = IF ~info.is_recoverable
                                    THEN QUOTA_ERROR ELSE EXHAUSTED_ERROR
                     /\ wait_time' = 0
              ELSE IF info.wait_seconds = None
                THEN /\ pc' = "done"
                     /\ raised' = TYPE_ERROR
                     /\ wait_time' = 0
              ELSE /\ pc' = "sleeping"
                   /\ raised' = raised
                   /\ wait_time' = wait_with_backoff(info, attempt)
  /\ UNCHANGED <<max_retries, attempt, returned, now, deadline, cancelled>>
  /\ UNCHANGED <<rec_vars, other>>

\* recommendation_chain.invoke raises RateLimitError
except_RateLimitError ==
  /\ pc = "calling"
  /\ \E text \in ServiceErrors :
       LET info == parse_rate_limit_error(text)
       IN  /\ error_message' = text
           /\ error_info' = info
           /\ history' = Append(history, Entry("invoke", "RateLimitError", info, 0))
           /\ IF ~should_retry(info, attempt, max_retries)
                THEN /\ pc' = "done"
                     /\ raised' = IF ~info.is_recoverable
                                    THEN QUOTA_ERROR ELSE EXHAUSTED_ERROR
                     /\ wait_time' = 0
              ELSE IF info.wait_seconds = None
                THEN /\ pc' = "done"
                     /\ raised' = TYPE_ERROR
                     /\ wait_time' = 0
              ELSE /\ pc' = "sleeping"
                   /\ raised' = raised
                   /\ wait_time' = wait_with_backoff(info, attempt)
  /\ UNCHANGED <<max_retries, attempt, returned, now, deadline, cancelled>>
  /\ UNCHANGED <<rec_vars, other>>

\* except Exception handled like a rate limit: the loop goes on while attempts remain
except_Exception_retrying ==
  /\ pc = "calling"
  /\ history' = Append(history, Entry("invoke", "Exception", NoInfo, 0))
  /\ IF attempt < max_retries
       THEN pc' = "calling" /\ attempt' = attempt + 1 /\ raised' = raised
       ELSE pc' = "done" /\ attempt' = attempt /\ raised' = SERVICE_ERROR
  /\ UNCHANGED <<max_retries, error_message, error_info, wait_time,
                 returned, now, deadline, cancelled>>
  /\ UNCHANGED <<rec_vars, other>>

\* recommendation_chain.invoke raises any other exception
except_Exception ==
  /\ pc = "calling"
  /\ pc' = "done"
  /\ raised' = SERVICE_ERROR
  /\ history' = Append(history, Entry("invoke", "Exception", NoInfo, 0))
  /\ UNCHANGED <<max_retries, attempt, error_message, error_info, wait_time,
                 returned, now, deadline, cancelled>>
  /\ UNCHANGED <<rec_vars, other>>

\* time.sleep cut short by a cancellation, which ends the call
time_sleep_returns_interruptible ==
  /\ pc = "sleeping"
  /\ IF cancelled
       THEN /\ now' = now
            /\ history' = Append(history, Entry("sleep", "slept", error_info, 0))
            /\ attempt' = attempt
            /\ pc' = "done"
            /\ raised' = CANCELLED
       ELSE /\ now' = now + wait_time
            /\ history' = Append(history,
                            [Entry("sleep", "slept", error_info, wait_time) EXCEPT !.at = now'])
            /\ attempt' = attempt + 1
            /\ IF attempt + 1 <= max_retries
                 THEN pc' = "calling" /\ raised' = raised
                 ELSE pc' = "done" /\ raised' = UNEXPECTED_ERROR
  /\ wait_time' = 0
  /\ UNCHANGED <<max_retries, error_message, error_info, returned, deadline, cancelled>>
  /\ UNCHANGED <<rec_vars, other>>

\* time.sleep(wait_time) returns and the for loop takes its next attempt
time_sleep_returns ==
  /\ pc = "sleeping"
  /\ now' = now + wait_time
  /\ history' = Append(history,
                  [Entry("sleep", "slept", error_info, wait_time) EXCEPT !.at = now'])
  /\ attempt' = attempt + 1
  /\ wait_time' = 0
  /\ IF attempt + 1 <= max_retries
       THEN pc' = "calling" /\ raised' = raised
       ELSE pc' = "done" /\ raised' = UNEXPECTED_ERROR
  /\ UNCHANGED <<max_retries, error_message, error_info, returned, deadline, cancelled>>
  /\ UNCHANGED <<rec_vars, other>>

\* the caller cancels the request while the call is in progress
Cancel ==
  /\ pc \in {"calling", "sleeping"}
  /\ ~cancelled
  /\ cancelled' = TRUE
  /\ UNCHANGED <<pc, max_retries, attempt, error_message, error_info, wait_time,
                 returned, raised, history, now, deadline>>
  /\ UNCHANGED <<rec_vars, other>>

Next ==
  \/ chain_invoke_returns
  \/ except_RateLimitError
  \/ except_Exception
  \/ time_sleep_returns
  \/ Cancel

Spec == Init /\ [][Next]_vars

\* ------------------------------------- parse_rate_limit_error on its own
InitClassify ==
  /\ pc = "parse"
  /\ error_message \in Texts \cup ServiceErrors
  /\ error_info = NoInfo
  /\ max_retries = 0
  /\ attempt = 0
  /\ wait_time = 0
  /\ returned = None
  /\ raised = ""
  /\ history = <<>>
  /\ now = 0
  /\ deadline = 0
  /\ cancelled = FALSE
  /\ NoRequest

parse_step ==
  /\ pc = "parse"
  /\ IF parse_raises(error_message)
       THEN error_info' = error_info /\ raised' = VALUE_ERROR
       ELSE error_info' = parse_rate_limit_error(error_message) /\ raised' = raised
  /\ pc' = "parsed"
  /\ UNCHANGED <<max_retries, attempt, error_message, wait_time, returned,
                 history, now, deadline, cancelled>>
  /\ UNCHANGED <<rec_vars, other>>

NextClassify == parse_step

SpecClassify == InitClassify /\ [][NextClassify]_vars

\* ------------------------------------------------------ Python's float
\* A float is an IEEE 754 double.  The model keeps the doubles the scoring
\* meets, zero and the positive normal ones, as <<m, e>> for m * 2^e, with m a
\* natural number of exactly MANT_BITS bits; m is written in base LIMB, lowest
\* digit first (<<>> is 0), since it does not fit an integer of the model.
MANT_BITS == 53
LIMB_BITS == 15
LIMB == 32768

RECURSIVE BigNorm(_)
BigNorm(a) ==
  IF Len(a) > 0 /\ a[Len(a)] = 0 THEN BigNorm(SubSeq(a, 1, Len(a) - 1)) ELSE a

BigOfInt(n) == BigNorm(<<n % LIMB, (n \div LIMB) % LIMB, n \div (LIMB * LIMB)>>)

RECURSIVE BigToInt(_)
BigToInt(a) == IF Len(a) = 0 THEN 0 ELSE a[1] + LIMB * BigToInt(Tail(a))

RECURSIVE BigAddC(_, _, _)
BigAddC(a, b, c) ==
  IF Len(a) = 0 /\ Len(b) = 0 THEN (IF c = 0 THEN <<>> ELSE <<c>>)
  ELSE LET x == IF Len(a) > 0 THEN a[1] ELSE 0
           y == IF Len(b) > 0 THEN b[1] ELSE 0
           s == x + y + c
       IN  <<s % LIMB>> \o BigAddC(IF Len(a) > 0 THEN Tail(a) ELSE a,
                                   IF Len(b) > 0 THEN Tail(b) ELSE b,
                                   s \div LIMB)

BigAdd(a, b) == BigAddC(a, b, 0)

\* a * k + c for digits k and c
RECURSIVE BigMulSmallC(_, _, _)
BigMulSmallC(a, k, c) ==
  IF Len(a) = 0 THEN (IF c = 0 THEN <<>> ELSE <<c>>)
  ELSE LET p == a[1] * k + c
       IN  <<p % LIMB>> \o BigMulSmallC(Tail(a), k, p \div LIMB)

BigMulSmall(a, k) == IF k = 0 THEN <<>> ELSE BigMulSmallC(a, k, 0)

RECURSIVE BigMul(_, _)
BigMul(a, b) ==
  IF Len(a) = 0 \/ Len(b) = 0 THEN <<>>
  ELSE LET rest == BigMul(a, Tail(b))
       IN  BigAdd(BigMulSmall(a, b[1]), IF Len(rest) = 0 THEN <<>> ELSE <<0>> \o rest)

\* <<a \div d, a % d>> for a digit d > 0, given the remainder r of the digits above
RECURSIVE BigDivSmallR(_, _, _)
BigDivSmallR(a, d, r) ==
  IF Len(a) = 0 THEN <<<<>>, r>>
  ELSE LET cur  == r * LIMB + a[Len(a)]
           rest == BigDivSmallR(SubSeq(a, 1, Len(a) - 1), d, cur % d)
       IN  <<Append(rest[1], cur \div d), rest[2]>>

BigDivSmall(a, d) ==
  LET qr == BigDivSmallR(a, d, 0) IN <<BigNorm(qr[1]), qr[2]>>

RECURSIVE BitLen(_)
BitLen(x) == IF x = 0 THEN 0 ELSE 1 + BitLen(x \div 2)

BigBitLen(a) ==
  IF Len(a) = 0 THEN 0 ELSE LIMB_BITS * (Len(a) - 1) + BitLen(a[Len(a)])

\* a * 2^n
BigShl(a, n) ==
  IF Len(a) = 0 THEN <<>>
  ELSE [i \in 1..(n \div LIMB_BITS) |-> 0] \o BigMulSmall(a, Pow(2, n % LIMB_BITS))

\* a \div 2^n
BigShr(a, n) ==
  LET top == SubSeq(a, n \div LIMB_BITS + 1, Len(a))
      p   == Pow(2, n % LIMB_BITS)
  IN  BigNorm([i \in 1..Len(top) |->
                 (top[i] \div p)
                   + (IF i < Len(top) THEN (top[i + 1] % p) * (LIMB \div p) ELSE 0)])

\* bit i of a, bit 0 the lowest
BigBit(a, i) ==
  IF i \div LIMB_BITS + 1 > Len(a) THEN 0
  ELSE (a[i \div LIMB_BITS + 1] \div Pow(2, i % LIMB_BITS)) % 2

\* one of the n lowest bits of a is set
BigLowBits(a, n) ==
  \/ \E i \in 1..Len(a) : i <= n \div LIMB_BITS /\ a[i] # 0
  \/ /\ n \div LIMB_BITS + 1 <= Len(a)
     /\ a[n \div LIMB_BITS + 1] % Pow(2, n % LIMB_BITS) # 0

\* a / 2^n rounded to the nearest integer, a half to the even one
BigShrRound(a, n) ==
  IF n = 0 THEN a
  ELSE LET q == BigShr(a, n)
       IN  IF BigBit(a, n - 1) = 1 /\ (BigLowBits(a, n - 1) \/ BigBit(q, 0) = 1)
             THEN BigAdd(q, <<1>>)
             ELSE q

FZERO == <<<<>>, 0>>

\* the double nearest m * 2^e, a tie to the even one
fround(m, e) ==
  IF Len(m) = 0 THEN FZERO
  ELSE LET n == BigBitLen(m) - MANT_BITS
       IN  IF n <= 0 THEN <<BigShl(m, 0 - n), e + n>>
           ELSE LET r == BigShrRound(m, n)
                IN  IF BigBitLen(r) > MANT_BITS
                      THEN <<BigShr(r, 1), e + n + 1>>
                      ELSE <<r, e + n>>

\* x * y
fmul(x, y) ==
  IF x = FZERO \/ y = FZERO THEN FZERO
  ELSE fround(BigMul(x[1], y[1]), x[2] + y[2])

\* x + y
fadd(x, y) ==
  IF x = FZERO THEN y
  ELSE IF y = FZERO THEN x
  ELSE LET hi == IF x[2] >= y[2] THEN x ELSE y
           lo == IF x[2] >= y[2] THEN y ELSE x
           d  == hi[2] - lo[2]
       IN  IF d > MANT_BITS + 1 THEN hi
           ELSE fround(BigAdd(BigShl(hi[1], d), lo[1]), lo[2])

\* a < b for numbers of equally many digits
RECURSIVE BigLess(_, _)
BigLess(a, b) ==
  /\ Len(a) > 0
  /\ \/ a[Len(a)] < b[Len(b)]
     \/ /\ a[Len(a)] = b[Len(b)]
        /\ BigLess(SubSeq(a, 1, Len(a) - 1), SubSeq(b, 1, Len(b) - 1))

\* x < y
fless(x, y) ==
  IF y = FZERO THEN FALSE
  ELSE IF x = FZERO THEN TRUE
  ELSE x[2] < y[2] \/ (x[2] = y[2] /\ BigLess(x[1], y[1]))

\* float(n * 2^k) for a natural number n
float(n, k) == LET x == fround(BigOfInt(n), 0) IN IF x = FZERO THEN x ELSE <<x[1], x[2] + k>>

\* the double a decimal literal of value n / d denotes
fratio(n, d) ==
  LET qr == BigDivSmall(BigShl(BigOfInt(n), 5 * LIMB_BITS), d)
      q  == qr[1]
  IN  fround(IF qr[2] # 0 /\ q[1] % 2 = 0 THEN [q EXCEPT ![1] = q[1] + 1] ELSE q,
             0 - 5 * LIMB_BITS)

\* round(x, 2), as its number of hundredths
round2(x) ==
  LET h == BigMulSmall(x[1], 100)
  IN  BigToInt(IF x[2] >= 0 THEN BigShl(h, x[2]) ELSE BigShrRound(h, 0 - x[2]))

\* ------------------------------------------------- calculate_card_value
\* A cash_back_rate r of a card stands for the float r / RATE_DEN (3 for
\* 0.03), a weight w for the float w / WEIGHT_DEN (5 for 0.5).
RATE_DEN == 100
WEIGHT_DEN == 10
\* 1 point = $0.015 = POINT_VALUE / POINT_DEN
POINT_VALUE == 15
POINT_DEN == 1000
\* each benefit is worth $2.0
BENEFIT_VALUE == 2

\* the values of CategoryEnum
DINING == <<"d","i","n","i","n","g">>
TRAVEL == <<"t","r","a","v","e","l">>
GROCERIES == <<"g","r","o","c","e","r","i","e","s">>
GAS == <<"g","a","s">>
ENTERTAINMENT == <<"e","n","t","e","r","t","a","i","n","m","e","n","t">>
SHOPPING == <<"s","h","o","p","p","i","n","g">>
OTHER_CATEGORY == <<"o","t","h","e","r">>

valid_categories == {DINING, TRAVEL, GROCERIES, GAS, ENTERTAINMENT, SHOPPING, OTHER_CATEGORY}

\* dict.get(key, default)
Get(dict, key, default) == IF key \in DOMAIN dict THEN dict[key] ELSE default

\* the weights of calculate_card_value, travel_points given the cash_back ones
weights_for_travel_as_cash(goal) ==
  IF goal = "cash_back" THEN [cash |-> 10, points |-> 1, benefits |-> 5]
  ELSE IF goal = "travel_points" THEN [cash |-> 10, points |-> 1, benefits |-> 5]
  ELSE IF goal = "specific_discounts" THEN [cash |-> 3, points |-> 3, benefits |-> 25]
  ELSE IF goal = "balanced" THEN [cash |-> 5, points |-> 5, benefits |-> 5]
  ELSE [cash |-> 5, points |-> 5, benefits |-> 5]

\* the weights of calculate_card_value for an optimization goal
weights_for(goal) ==
  IF goal = "cash_back" THEN [cash |-> 10, points |-> 1, benefits |-> 5]
  ELSE IF goal = "travel_points" THEN [cash |-> 1, points |-> 10, benefits |-> 5]
  ELSE IF goal = "specific_discounts" THEN [cash |-> 3, points |-> 3, benefits |-> 25]
  ELSE IF goal = "balanced" THEN [cash |-> 5, points |-> 5, benefits |-> 5]
  ELSE [cash |-> 5, points |-> 5, benefits |-> 5]

\* the rate lookup of calculate_card_value without the fallback to 'other'
lookup_rate_no_other(rates, category_key) == Get(rates, category_key, 0)

\* card.get(...).get(category_key, card.get(...).get('other', 0))
lookup_rate(rates, category_key) ==
  Get(rates, category_key, Get(rates, OTHER_CATEGORY, 0))

\* an amount is kept as <<n, k>> for the float n * 2^k dollars
amount_float(amount) == float(amount[1], amount[2])

\* <<total_value, breakdown>>, the amounts of money and of points as floats
calculate_card_value(card, amount, category, goal) ==
  LET category_key   == lower(category)
      cash_back_rate == lookup_rate(card.cash_back_rate, category_key)
      points_mult    == lookup_rate(card.points_multiplier, category_key)
      cash_back      == fmul(amount_float(amount), fratio(cash_back_rate, RATE_DEN))
      points         == fmul(amount_float(amount), float(points_mult, 0))
      points_value   == fmul(points, fratio(POINT_VALUE, POINT_DEN))
      benefits_count == Len(card.benefits)
      benefits_value == fmul(float(benefits_count, 0), float(BENEFIT_VALUE, 0))
      weights        == weights_for(goal)
      total_value    == fadd(fadd(fmul(fratio(weights.cash, WEIGHT_DEN), cash_back),
                                  fmul(fratio(weights.points, WEIGHT_DEN), points_value)),
                             fmul(fratio(weights.benefits, WEIGHT_DEN), benefits_value))
  IN  <<total_value,
        [cash_back |-> cash_back,
         points |-> points,
         points_value |-> points_value,
         benefits_count |-> benefits_count,
         benefits_value |-> benefits_value,
         weights |-> weights,
         total_value |-> total_value]>>

\* ------------------------------------------------------ inputs of scoring
\* largest number of benefits of a card
MaxBenefits == 2

BenefitNames == <<"lounge access", "purchase protection", "travel insurance", "cash bonus">>

CRYPTO == <<"c","r","y","p","t","o">>
DINING_CAPITAL == <<"D","i","n","i","n","g">>

\* every dict over a subset of keys with values in vals
Dicts(keys, vals) == UNION {[d -> vals] : d \in SUBSET keys}

\* the cards calculate_card_value is applied to
ScoreCards ==
  { [card_id |-> "card", card_name |-> "Card",
     cash_back_rate |-> cb, points_multiplier |-> pm,
     benefits |-> SubSeq(BenefitNames, 1, n)] :
       cb \in Dicts({DINING, OTHER_CATEGORY}, {1, 3}),
       pm \in Dicts({DINING, OTHER_CATEGORY}, {1, 2}),
       n \in 0..MaxBenefits }

ScoreAmounts == {<<100, 0>>, <<250, 0>>}
ScoreCategories == {DINING, DINING_CAPITAL, TRAVEL, CRYPTO, OTHER_CATEGORY}
Goals == {"cash_back", "travel_points", "specific_discounts", "balanced", "max_miles"}

\* ---------------------------------- calculate_card_value on its own
InitScore ==
  /\ pc = "score"
  /\ transaction_data \in [merchant : {"Cafe"}, amount : ScoreAmounts,
                           category : ScoreCategories, optimization_goal : Goals]
  /\ user_cards \in {<<c>> : c \in ScoreCards}
  /\ llm = TRUE
  /\ card_scores = <<>>
  /\ response = None
  /\ other = None
  /\ max_retries = 0
  /\ attempt = 0
  /\ error_message = <<>>
  /\ error_info = NoInfo
  /\ wait_time = 0
  /\ returned = None
  /\ raised = ""
  /\ history = <<>>
  /\ now = 0
  /\ deadline = 0
  /\ cancelled = FALSE

score_step ==
  /\ pc = "score"
  /\ LET r == calculate_card_value(user_cards[1], transaction_data.amount,
                                   transaction_data.category,
                                   transaction_data.optimization_goal)
     IN  card_scores' = <<[card |-> user_cards[1], value |-> r[1], breakdown |-> r[2]]>>
  /\ pc' = "scored"
  /\ UNCHANGED <<max_retries, attempt, error_message, error_info, wait_time, returned,
                 raised, history, now, deadline, cancelled>>
  /\ UNCHANGED <<transaction_data, user_cards, llm, response, other>>

NextScore == score_step

SpecScore == InitScore /\ [][NextScore]_vars

\* ------------------------------------------------------ get_recommendation
\* max_retries of _invoke_llm_with_retry when the caller passes none
DEFAULT_MAX_RETRIES == 3

NO_CARDS_RESULT ==
  [error |-> "No cards available",
   message |-> "Please add at least one credit card to get recommendations.",
   recommended_card |-> None]

INVALID_AMOUNT_RESULT ==
  [error |-> "Invalid amount",
   message |-> "Transaction amount cannot be negative.",
   recommended_card |-> None]

ZERO_AMOUNT_RESULT ==
  [recommended_card |->
     Some([card_name |-> "Any card",
           explanation |-> "No rewards earned on $0 transactions. Any card works.",
           expected_value |-> 0,
           cash_back_earned |-> 0,
           points_earned |-> 0]),
   optimization_summary |-> "No rewards for $0 transaction"]

AI_UNAVAILABLE ==
  "AI service unavailable. Please ensure GROQ_API_KEY is configured and the service is operational."

Min(a, b) == IF a <= b THEN a ELSE b

\* the Python slice seq[a:b], 0 <= a <= b
Slice(seq, a, b) == SubSeq(seq, a + 1, Min(b, Len(seq)))

\* a category that is not valid replaced by 'dining'
normalize_category_to_dining(t) ==
  IF lower(t.category) \in valid_categories THEN t
  ELSE [t EXCEPT !.category = DINING]

\* if category not in valid_categories: transaction_data['category'] = 'other'
normalize_category(t) ==
  IF lower(t.category) \in valid_categories THEN t
  ELSE [t EXCEPT !.category = OTHER_CATEGORY]

\* the loop that fills card_scores, in the order of the cards
score_cards(cards, t) ==
  [i \in 1..Len(cards) |->
     LET r == calculate_card_value(cards[i], t.amount, t.category, t.optimization_goal)
     IN  [card |-> cards[i], value |-> r[1], breakdown |-> r[2]]]

\* card_scores.sort without reverse=True: ascending
RECURSIVE sort_by_value_ascending(_)
sort_by_value_ascending(seq) ==
  IF Len(seq) = 0 THEN <<>>
  ELSE LET rest == sort_by_value_ascending(SubSeq(seq, 1, Len(seq) - 1))
           x    == seq[Len(seq)]
           k    == Cardinality({i \in 1..Len(rest) : ~fless(x.value, rest[i].value)})
       IN  SubSeq(rest, 1, k) \o <<x>> \o SubSeq(rest, k + 1, Len(rest))

\* an ascending sort read backwards: descending, equal values in reverse order
RECURSIVE sort_by_value_ties_reversed(_)
sort_by_value_ties_reversed(seq) ==
  IF Len(seq) = 0 THEN <<>>
  ELSE LET rest == sort_by_value_ties_reversed(SubSeq(seq, 1, Len(seq) - 1))
           x    == seq[Len(seq)]
           k    == Cardinality({i \in 1..Len(rest) : fless(x.value, rest[i].value)})
       IN  SubSeq(rest, 1, k) \o <<x>> \o SubSeq(rest, k + 1, Len(rest))

\* card_scores.sort(key=lambda x: x['value'], reverse=True): list.sort is
\* stable, also with reverse=True
RECURSIVE sort_by_value(_)
sort_by_value(seq) ==
  IF Len(seq) = 0 THEN <<>>
  ELSE LET rest == sort_by_value(SubSeq(seq, 1, Len(seq) - 1))
           x    == seq[Len(seq)]
           k    == Cardinality({i \in 1..Len(rest) : ~fless(rest[i].value, x.value)})
       IN  SubSeq(rest, 1, k) \o <<x>> \o SubSeq(rest, k + 1, Len(rest))

IsSpace(c) == c \in {" ", "\n", "\t", "\r"}

\* str.strip()
RECURSIVE strip(_)
strip(text) ==
  IF Len(text) = 0 THEN text
  ELSE IF IsSpace(SubSeq(text, 1, 1)) THEN strip(SubSeq(text, 2, Len(text)))
  ELSE IF IsSpace(SubSeq(text, Len(text), Len(text)))
    THEN strip(SubSeq(text, 1, Len(text) - 1))
  ELSE text

\* the comparisons list of _build_enhanced_explanation
RECURSIVE comparisons_of(_)
comparisons_of(alts) ==
  IF Len(alts) = 0 THEN <<>>
  ELSE LET alt == alts[1]
           c == IF fless(FZERO, alt.breakdown.cash_back)
                  THEN <<[kind |-> "cash back", name |-> alt.card.card_name,
                          a |-> alt.breakdown.cash_back, b |-> FZERO]>>
                  ELSE <<>>
           q == IF fless(FZERO, alt.breakdown.points)
                  THEN <<[kind |-> "points", name |-> "",
                          a |-> alt.breakdown.points, b |-> FZERO]>>
                  ELSE <<>>
       IN  c \o q \o comparisons_of(Tail(alts))

\* the explanation with the AI text appended from a length of 20 on
build_enhanced_explanation_from_20(top_cards, t, ai_explanation) ==
  IF Len(top_cards) = 0 THEN [lead |-> <<>>, vs |-> <<>>, ai |-> ai_explanation]
  ELSE LET best == top_cards[1]
           earns == <<[kind |-> "earns cash back", name |-> best.card.card_name,
                       a |-> best.breakdown.cash_back, b |-> FZERO]>>
           pts == IF fless(FZERO, best.breakdown.points)
                    THEN <<[kind |-> "points", name |-> "",
                            a |-> best.breakdown.points,
                            b |-> best.breakdown.points_value]>>
                    ELSE <<>>
           comparisons == IF Len(top_cards) > 1
                            THEN comparisons_of(Tail(top_cards)) ELSE <<>>
       IN  [lead |-> earns \o pts,
            vs |-> Slice(comparisons, 0, 2),
            ai |-> IF Len(ai_explanation) >= 20
                     THEN SubSeq(ai_explanation, 1, Min(300, Len(ai_explanation)))
                     ELSE ""]

\* the explanation, as its parts: the leading sentence, the items of the
\* "vs." clause, and the AI text appended
build_enhanced_explanation(top_cards, t, ai_explanation) ==
  IF Len(top_cards) = 0 THEN [lead |-> <<>>, vs |-> <<>>, ai |-> ai_explanation]
  ELSE LET best == top_cards[1]
           earns == <<[kind |-> "earns cash back", name |-> best.card.card_name,
                       a |-> best.breakdown.cash_back, b |-> FZERO]>>
           pts == IF fless(FZERO, best.breakdown.points)
                    THEN <<[kind |-> "points", name |-> "",
                            a |-> best.breakdown.points,
                            b |-> best.breakdown.points_value]>>
                    ELSE <<>>
           comparisons == IF Len(top_cards) > 1
                            THEN comparisons_of(Tail(top_cards)) ELSE <<>>
       IN  [lead |-> earns \o pts,
            vs |-> Slice(comparisons, 0, 2),
            ai |-> IF Len(ai_explanation) > 20
                     THEN SubSeq(ai_explanation, 1, Min(300, Len(ai_explanation)))
                     ELSE ""]

\* the alternatives listed from the last of the scores to the first
build_alternatives_last_first(scores) ==
  [i \in 1..Len(scores) |->
     LET item == scores[Len(scores) + 1 - i]
     IN  [card_id |-> item.card.card_id,
          card_name |-> item.card.card_name,
          expected_value |-> round2(item.value),
          cash_back_earned |-> round2(item.breakdown.cash_back),
          points_earned |-> round2(item.breakdown.points),
          applicable_benefits |-> Slice(item.card.benefits, 0, 2),
          explanation |-> [text |-> "Alternative earning ${value:.2f} total value",
                           value |-> item.value],
          confidence_score |-> 85]]

build_alternatives_from_scores(scores) ==
  [i \in 1..Len(scores) |->
     [card_id |-> scores[i].card.card_id,
      card_name |-> scores[i].card.card_name,
      expected_value |-> round2(scores[i].value),
      cash_back_earned |-> round2(scores[i].breakdown.cash_back),
      points_earned |-> round2(scores[i].breakdown.points),
      applicable_benefits |-> Slice(scores[i].card.benefits, 0, 2),
      explanation |-> [text |-> "Alternative earning ${value:.2f} total value",
                       value |-> scores[i].value],
      confidence_score |-> 85]]

\* str(n) of an integer n >= 0
RECURSIVE str_int(_)
str_int(n) ==
  IF n < 10 THEN Digits[n + 1] ELSE str_int(n \div 10) \o Digits[(n % 10) + 1]

\* f"{x:.0f}": the nearest integer, a tie to the even one
format_0f(x) ==
  str_int(BigToInt(IF x[2] >= 0 THEN BigShl(x[1], x[2])
                   ELSE BigShrRound(x[1], 0 - x[2])))

\* f"{x:.2f}"
format_2f(x) ==
  LET h == round2(x)
  IN  str_int(h \div 100) \o "." \o Digits[((h \div 10) % 10) + 1] \o Digits[(h % 10) + 1]

\* ' and '.join(items) of the items of the "vs." clause
RECURSIVE join_comparisons(_)
join_comparisons(items) ==
  IF Len(items) = 0 THEN ""
  ELSE LET c == items[1]
           s == IF c.kind = "cash back"
                  THEN c.name \o " $" \o format_2f(c.a) \o " cash back"
                  ELSE format_0f(c.a) \o " points"
       IN  IF Len(items) = 1 THEN s ELSE s \o " and " \o join_comparisons(Tail(items))

\* the string _build_enhanced_explanation returns, from its parts:
\* " ".join(comparison_parts) + ". " and the AI text
enhanced(e) ==
  IF Len(e.lead) = 0 THEN e.ai
  ELSE LET earns == e.lead[1].name \o " earns $" \o format_2f(e.lead[1].a) \o " cash back"
           pts == IF Len(e.lead) > 1
                    THEN " " \o format_0f(e.lead[2].a) \o " points ($"
                             \o format_2f(e.lead[2].b) \o " value)"
                    ELSE ""
           vs == IF Len(e.vs) > 0 THEN " vs. " \o join_comparisons(e.vs) ELSE ""
       IN  earns \o pts \o vs \o ". " \o e.ai

\* text has the substring name
HasSubstring(text, name) ==
  \E i \in 1..(Len(text) - Len(name) + 1) : SubSeq(text, i, i + Len(name) - 1) = name

\* the dict get_recommendation returns after a successful invocation
result_for(best_card_data, scores, t, result_text) ==
  LET best_card == best_card_data.card
      best_breakdown == best_card_data.breakdown
      ai_explanation == strip(result_text)
      enhanced_explanation ==
        build_enhanced_explanation(Slice(scores, 0, 3), t, ai_explanation)
  IN  [recommended_card |->
         Some([card_id |-> best_card.card_id,
               card_name |-> best_card.card_name,
               expected_value |-> round2(best_card_data.value),
               cash_back_earned |-> round2(best_breakdown.cash_back),
               points_earned |-> round2(best_breakdown.points),
               applicable_benefits |-> Slice(best_card.benefits, 0, 2),
               explanation |-> enhanced_explanation,
               confidence_score |-> 95]),
       alternative_cards |-> build_alternatives_from_scores(Slice(scores, 1, 3)),
       optimization_summary |->
         [text |-> "Best choice for {goal}: {card_name} (${value:.2f} value)",
          goal |-> t.optimization_goal,
          card_name |-> best_card.card_name,
          value |-> best_card_data.value],
       total_savings |-> round2(best_card_data.value)]

\* the result built around the card the AI text names, when it names one
build_response_ai_pick(scores, t, result_text) ==
  LET named == {i \in 1..Len(scores) : HasSubstring(result_text, scores[i].card.card_name)}
      pick  == IF named = {} THEN 1 ELSE CHOOSE i \in named : \A j \in named : i <= j
  IN  result_for(scores[pick], scores, t, result_text)

\* best_card_data = card_scores[0]: the AI only provides the explanation
build_response(scores, t, result_text) ==
  result_for(scores[1], scores, t, result_text)

CardA ==
  [card_id |-> "card_a", card_name |-> "Card A",
   cash_back_rate |-> (DINING :> 3) @@ (OTHER_CATEGORY :> 1),
   points_multiplier |-> (OTHER_CATEGORY :> 0),
   benefits |-> SubSeq(BenefitNames, 1, 1)]

\* Card A with a lower cash back rate on dining
CardB ==
  [CardA EXCEPT !.card_id = "card_b", !.card_name = "Card B",
                !.cash_back_rate = (DINING :> 2) @@ (OTHER_CATEGORY :> 1)]

CardP ==
  [card_id |-> "card_p", card_name |-> "Card P",
   cash_back_rate |-> (OTHER_CATEGORY :> 0),
   points_multiplier |-> (DINING :> 2) @@ (OTHER_CATEGORY :> 1),
   benefits |-> SubSeq(BenefitNames, 1, 2)]

RecCards == {CardA, CardB, CardP}

\* the lists of different cards a user can hold
CardLists ==
  UNION {{cards \in [1..n -> RecCards] :
            \A i, j \in 1..n : i # j => cards[i] # cards[j]} :
         n \in 0..Cardinality(RecCards)}

\* -100, 0 and 100 dollars
RecAmounts == {<<0 - 100, 0>>, <<0, 0>>, <<100, 0>>}
\* the same, and 12.50 dollars, a cent (nearly) and 2^-50 of a dollar
RankAmounts == RecAmounts \cup {<<25, 0 - 1>>, <<5, 0 - 9>>, <<1, 0 - 50>>}
RecCategories == {DINING, CRYPTO}
RecGoals == {"cash_back", "travel_points"}

\* a request with one of the amounts arrives
Request(amounts) ==
  /\ pc = "start"
  /\ max_retries = DEFAULT_MAX_RETRIES
  /\ attempt = 0
  /\ error_message = <<>>
  /\ error_info = NoInfo
  /\ wait_time = 0
  /\ returned = None
  /\ raised = ""
  /\ history = <<>>
  /\ now = 0
  /\ deadline \in {d \in Deadlines : \A e \in Deadlines : e <= d}
  /\ cancelled = FALSE
  /\ transaction_data \in [merchant : {"Cafe"}, amount : amounts,
                           category : RecCategories, optimization_goal : RecGoals]
  /\ user_cards \in CardLists
  /\ llm \in BOOLEAN
  /\ card_scores = <<>>
  /\ response = None
  /\ other = None

\* get_recommendation falling back to the scores when no LLM is configured
get_recommendation_scores_only ==
  /\ pc = "start"
  /\ IF Len(user_cards) = 0
       THEN /\ response' = Some(NO_CARDS_RESULT)
            /\ pc' = "returned"
            /\ UNCHANGED <<transaction_data, card_scores, raised>>
     ELSE IF transaction_data.amount[1] < 0
       THEN /\ response' = Some(INVALID_AMOUNT_RESULT)
            /\ pc' = "returned"
            /\ UNCHANGED <<transaction_data, card_scores, raised>>
     ELSE IF transaction_data.amount[1] = 0
       THEN /\ response' = Some(ZERO_AMOUNT_RESULT)
            /\ pc' = "returned"
            /\ UNCHANGED <<transaction_data, card_scores, raised>>
     ELSE /\ transaction_data' = normalize_category(transaction_data)
          /\ card_scores' = sort_by_value(score_cards(user_cards, transaction_data'))
          /\ IF ~llm
               THEN /\ response' = Some(build_response(card_scores', transaction_data', ""))
                    /\ pc' = "returned"
               ELSE /\ pc' = "calling"
                    /\ response' = response
          /\ raised' = raised
  /\ UNCHANGED <<max_retries, attempt, error_message, error_info, wait_time,
                 returned, history, now, deadline, cancelled, user_cards, llm, other>>

\* get_recommendation ranking the cards before it tests for an amount of 0
get_recommendation_scoring_first ==
  /\ pc = "start"
  /\ IF Len(user_cards) = 0
       THEN /\ response' = Some(NO_CARDS_RESULT)
            /\ pc' = "returned"
            /\ UNCHANGED <<transaction_data, card_scores, raised>>
     ELSE IF transaction_data.amount[1] < 0
       THEN /\ response' = Some(INVALID_AMOUNT_RESULT)
            /\ pc' = "returned"
            /\ UNCHANGED <<transaction_data, card_scores, raised>>
     ELSE /\ transaction_data' = normalize_category(transaction_data)
          /\ card_scores' = sort_by_value(score_cards(user_cards, transaction_data'))
          /\ IF transaction_data.amount[1] = 0
               THEN /\ response' = Some(ZERO_AMOUNT_RESULT)
                    /\ pc' = "returned"
                    /\ raised' = raised
             ELSE IF ~llm
               THEN /\ raised' = AI_UNAVAILABLE
                    /\ pc' = "raised"
                    /\ response' = response
             ELSE /\ pc' = "calling"
                  /\ raised' = raised
                  /\ response' = response
  /\ UNCHANGED <<max_retries, attempt, error_message, error_info, wait_time,
                 returned, history, now, deadline, cancelled, user_cards, llm, other>>

\* get_recommendation with one test, amount <= 0, for the two edge cases
get_recommendation_negative_as_zero ==
  /\ pc = "start"
  /\ IF Len(user_cards) = 0
       THEN /\ response' = Some(NO_CARDS_RESULT)
            /\ pc' = "returned"
            /\ UNCHANGED <<transaction_data, card_scores, raised>>
     ELSE IF transaction_data.amount[1] <= 0
       THEN /\ response' = Some(ZERO_AMOUNT_RESULT)
            /\ pc' = "returned"
            /\ UNCHANGED <<transaction_data, card_scores, raised>>
     ELSE /\ transaction_data' = normalize_category(transaction_data)
          /\ card_scores' = sort_by_value(score_cards(user_cards, transaction_data'))
          /\ IF ~llm
               THEN /\ raised' = AI_UNAVAILABLE
                    /\ pc' = "raised"
               ELSE /\ pc' = "calling"
                    /\ raised' = raised
          /\ response' = response
  /\ UNCHANGED <<max_retries, attempt, error_message, error_info, wait_time,
                 returned, history, now, deadline, cancelled, user_cards, llm, other>>

\* get_recommendation testing self.llm before it tests for an amount of 0
get_recommendation_llm_check_first ==
  /\ pc = "start"
  /\ IF Len(user_cards) = 0
       THEN /\ response' = Some(NO_CARDS_RESULT)
            /\ pc' = "returned"
            /\ UNCHANGED <<transaction_data, card_scores, raised>>
     ELSE IF transaction_data.amount[1] < 0
       THEN /\ response' = Some(INVALID_AMOUNT_RESULT)
            /\ pc' = "returned"
            /\ UNCHANGED <<transaction_data, card_scores, raised>>
     ELSE IF ~llm
       THEN /\ raised' = AI_UNAVAILABLE
            /\ pc' = "raised"
            /\ UNCHANGED <<transaction_data, card_scores, response>>
     ELSE IF transaction_data.amount[1] = 0
       THEN /\ response' = Some(ZERO_AMOUNT_RESULT)
            /\ pc' = "returned"
            /\ UNCHANGED <<transaction_data, card_scores, raised>>
     ELSE /\ transaction_data' = normalize_category(transaction_data)
          /\ card_scores' = sort_by_value(score_cards(user_cards, transaction_data'))
          /\ pc' = "calling"
          /\ UNCHANGED <<raised, response>>
  /\ UNCHANGED <<max_retries, attempt, error_message, error_info, wait_time,
                 returned, history, now, deadline, cancelled, user_cards, llm, other>>

\* get_recommendation validating the amount before it looks at the cards
get_recommendation_amount_first ==
  /\ pc = "start"
  /\ IF transaction_data.amount[1] < 0
       THEN /\ response' = Some(INVALID_AMOUNT_RESULT)
            /\ pc' = "returned"
            /\ UNCHANGED <<transaction_data, card_scores, raised>>
     ELSE IF transaction_data.amount[1] = 0
       THEN /\ response' = Some(ZERO_AMOUNT_RESULT)
            /\ pc' = "returned"
            /\ UNCHANGED <<transaction_data, card_scores, raised>>
     ELSE IF Len(user_cards) = 0
       THEN /\ response' = Some(NO_CARDS_RESULT)
            /\ pc' = "returned"
            /\ UNCHANGED <<transaction_data, card_scores, raised>>
     ELSE /\ transaction_data' = normalize_category(transaction_data)
          /\ card_scores' = sort_by_value(score_cards(user_cards, transaction_data'))
          /\ IF ~llm
               THEN /\ raised' = AI_UNAVAILABLE
                    /\ pc' = "raised"
               ELSE /\ pc' = "calling"
                    /\ raised' = raised
          /\ response' = response
  /\ UNCHANGED <<max_retries, attempt, error_message, error_info, wait_time,
                 returned, history, now, deadline, cancelled, user_cards, llm, other>>

\* get_recommendation from its entry to the call of _invoke_llm_with_retry:
\* the edge cases, the scoring and sorting of the cards, the check of self.llm
get_recommendation ==
  /\ pc = "start"
  /\ IF Len(user_cards) = 0
       THEN /\ response' = Some(NO_CARDS_RESULT)
            /\ pc' = "returned"
            /\ UNCHANGED <<transaction_data, card_scores, raised>>
     ELSE IF transaction_data.amount[1] < 0
       THEN /\ response' = Some(INVALID_AMOUNT_RESULT)
            /\ pc' = "returned"
            /\ UNCHANGED <<transaction_data, card_scores, raised>>
     ELSE IF transaction_data.amount[1] = 0
       THEN /\ response' = Some(ZERO_AMOUNT_RESULT)
            /\ pc' = "returned"
            /\ UNCHANGED <<transaction_data, card_scores, raised>>
     ELSE /\ transaction_data' = normalize_category(transaction_data)
          /\ card_scores' = sort_by_value(score_cards(user_cards, transaction_data'))
          /\ IF ~llm
               THEN /\ raised' = AI_UNAVAILABLE
                    /\ pc' = "raised"
               ELSE /\ pc' = "calling"
                    /\ raised' = raised
          /\ response' = response
  /\ UNCHANGED <<max_retries, attempt, error_message, error_info, wait_time,
                 returned, history, now, deadline, cancelled, user_cards, llm, other>>

\* get_recommendation after _invoke_llm_with_retry: its RuntimeError
\* propagates, its result is turned into the response
get_recommendation_returns ==
  /\ pc = "done"
  /\ IF returned = None
       THEN /\ pc' = "raised"
            /\ response' = response
       ELSE /\ pc' = "returned"
            /\ response' = Some(build_response(card_scores, transaction_data, returned[1]))
  /\ UNCHANGED <<max_retries, attempt, error_message, error_info, wait_time,
                 returned, raised, history, now, deadline, cancelled,
                 transaction_data, user_cards, llm, card_scores, other>>

InitRecommend == Request(RecAmounts)

NextRecommend ==
  \/ get_recommendation
  \/ chain_invoke_returns
  \/ except_RateLimitError
  \/ except_Exception
  \/ time_sleep_returns
  \/ get_recommendation_returns

SpecRecommend == InitRecommend /\ [][NextRecommend]_vars

\* ------------------------------- get_recommendation up to the ranking
InitRank == Request(RankAmounts)

NextRank == get_recommendation

SpecRank == InitRank /\ [][NextRank]_vars

\* ------------------------------------- _build_enhanced_explanation alone
\* a card that earns cash back and points
CardD ==
  [card_id |-> "card_d", card_name |-> "Card D",
   cash_back_rate |-> (DINING :> 2) @@ (OTHER_CATEGORY :> 1),
   points_multiplier |-> (DINING :> 1) @@ (OTHER_CATEGORY :> 1),
   benefits |-> SubSeq(BenefitNames, 1, 1)]

ComposeCards == RecCards \cup {CardD}

\* the lists of one to three different cards
ComposeCardLists ==
  UNION {{cards \in [1..n -> ComposeCards] :
            \A i, j \in 1..n : i # j => cards[i] # cards[j]} :
         n \in 1..3}

\* k times the ten digits
RECURSIVE Copies(_)
Copies(k) ==
  IF k = 1 THEN "0123456789"
  ELSE LET h == Copies(k \div 2)
       IN  IF k % 2 = 0 THEN h \o h ELSE h \o h \o "0123456789"

\* a text of n characters, no two neighbours alike
TextOfLength(n) == SubSeq(Copies((n \div 10) + 1), 1, n)

\* lengths around the two thresholds of the AI text
ComposeLengths == {0, 1, 20, 21, 299, 300, 301, 310}

ComposeTexts == {TextOfLength(n) : n \in ComposeLengths}

\* a ranking of the cards of a purchase of 100 dollars, and a stripped reply
InitCompose ==
  /\ pc = "compose"
  /\ max_retries = DEFAULT_MAX_RETRIES
  /\ attempt = 0
  /\ error_message = <<>>
  /\ error_info = NoInfo
  /\ wait_time = 0
  /\ returned \in {Some(text) : text \in ComposeTexts}
  /\ raised = ""
  /\ history = <<>>
  /\ now = 0
  /\ deadline \in {d \in Deadlines : \A e \in Deadlines : e <= d}
  /\ cancelled = FALSE
  /\ transaction_data \in [merchant : {"Cafe"}, amount : {<<100, 0>>},
                           category : {DINING, OTHER_CATEGORY},
                           optimization_goal : RecGoals]
  /\ user_cards \in ComposeCardLists
  /\ llm = TRUE
  /\ card_scores = sort_by_value(score_cards(user_cards, transaction_data))
  /\ response = None
  /\ other = None

\* self._build_enhanced_explanation(card_scores[:3], transaction_data,
\* ai_explanation)
compose_step ==
  /\ pc = "compose"
  /\ pc' = "composed"
  /\ response' = Some(enhanced(build_enhanced_explanation(
                        Slice(card_scores, 0, 3), transaction_data, returned[1])))
  /\ UNCHANGED <<max_retries, attempt, error_message, error_info, wait_time,
                 returned, raised, history, now, deadline, cancelled,
                 transaction_data, user_cards, llm, card_scores, other>>

NextCompose == compose_step

SpecCompose == InitCompose /\ [][NextCompose]_vars

\* ------------------- two _invoke_llm_with_retry on the one agentic_system
\* the local variables of the invocation that takes the steps
locals ==
  [pc |-> pc, max_retries |-> max_retries, attempt |-> attempt,
   error_message |-> error_message, error_info |-> error_info,
   wait_time |-> wait_time, returned |-> returned, raised |-> raised,
   history |-> history, now |-> now]

\* the local variables at the entry of the for loop: attempt is range(...)'s 0
entry_locals(m) ==
  [pc |-> "calling", max_retries |-> m, attempt |-> 0,
   error_message |-> <<>>, error_info |-> NoInfo,
   wait_time |-> 0, returned |-> None, raised |-> "",
   history |-> <<>>, now |-> 0]

\* the scheduler with an attempt counter that belongs to the system, not to
\* the invocation
switch_shared_attempt ==
  /\ other # None
  /\ other' = Some(locals)
  /\ pc' = other[1].pc
  /\ max_retries' = other[1].max_retries
  /\ attempt' = attempt
  /\ error_message' = other[1].error_message
  /\ error_info' = other[1].error_info
  /\ wait_time' = other[1].wait_time
  /\ returned' = other[1].returned
  /\ raised' = other[1].raised
  /\ history' = other[1].history
  /\ now' = other[1].now
  /\ UNCHANGED <<deadline, cancelled, rec_vars>>

\* the scheduler lets the other invocation take the next steps: each has its
\* own frame, so its own attempt, error_info and rate_limit_handler
switch ==
  /\ other # None
  /\ other' = Some(locals)
  /\ pc' = other[1].pc
  /\ max_retries' = other[1].max_retries
  /\ attempt' = other[1].attempt
  /\ error_message' = other[1].error_message
  /\ error_info' = other[1].error_info
  /\ wait_time' = other[1].wait_time
  /\ returned' = other[1].returned
  /\ raised' = other[1].raised
  /\ history' = other[1].history
  /\ now' = other[1].now
  /\ UNCHANGED <<deadline, cancelled, rec_vars>>

\* a later request calls _invoke_llm_with_retry after the earlier call ended
invoke_llm_with_retry ==
  /\ pc = "done"
  /\ pc' = "calling"
  /\ attempt' = 0
  /\ error_message' = <<>>
  /\ error_info' = NoInfo
  /\ wait_time' = 0
  /\ returned' = None
  /\ raised' = ""
  /\ history' = <<>>
  /\ now' = 0
  /\ UNCHANGED <<max_retries, deadline, cancelled, rec_vars, other>>

\* the max_retries argument of the second invocation
MaxOtherRetries == 1

\* one invocation with the default max_retries, one with a smaller argument
InitConcurrent ==
  /\ pc = "calling"
  /\ max_retries = DEFAULT_MAX_RETRIES
  /\ attempt = 0
  /\ error_message = <<>>
  /\ error_info = NoInfo
  /\ wait_time = 0
  /\ returned = None
  /\ raised = ""
  /\ history = <<>>
  /\ now = 0
  /\ other = Some(entry_locals(MaxOtherRetries))
  /\ deadline \in {d \in Deadlines : \A e \in Deadlines : e <= d}
  /\ cancelled = FALSE
  /\ transaction_data = <<>>
  /\ user_cards = <<>>
  /\ llm = TRUE
  /\ card_scores = <<>>
  /\ response = None

NextConcurrent ==
  \/ chain_invoke_returns
  \/ except_RateLimitError
  \/ except_Exception
  \/ time_sleep_returns
  \/ switch
  \/ invoke_llm_with_retry

SpecConcurrent == InitConcurrent /\ [][NextConcurrent]_vars

\* ------------------------------- _invoke_llm_with_retry, its calls ending
\* every call of the service ends, with a reply or an exception, and every
\* time.sleep returns
SpecLive ==
  /\ Init
  /\ [][Next]_vars
  /\ WF_vars(chain_invoke_returns \/ except_RateLimitError \/ except_Exception)
  /\ WF_vars(time_sleep_returns)

\* ================================================================== claims
Calls == Cardinality({i \in 1..Len(history) : history[i].op = "invoke"})
Sleeps == Cardinality({i \in 1..Len(history) : history[i].op = "sleep"})

IsQuotaFailure(e) ==
  e.op = "invoke" /\ e.outcome = "RateLimitError" /\ ~e.info.is_recoverable
IsRecoverableFailure(e) ==
  e.op = "invoke" /\ e.outcome = "RateLimitError" /\ e.info.is_recoverable

\* C1: a service call that fails with a non-recoverable (daily quota) rate-limit
\* error is the last thing the invocation does, at whatever attempt: the call
\* is over with the quota error raised, nothing returned, no sleep started and
\* no call after it; as the first call's failure it leaves one call, no sleep.
C1_QuotaNeverRetried ==
  \A i \in 1..Len(history) :
    IsQuotaFailure(history[i]) =>
      /\ i = Len(history)
      /\ pc = "done"
      /\ raised = QUOTA_ERROR
      /\ returned = None
      /\ wait_time = 0
      /\ (history[i].attempt = 0 => Calls = 1 /\ Sleeps = 0)

\* C1 witness: the quota error arrives on a retry, after a backoff
C1_Witness ==
  /\ Len(history) >= 3
  /\ IsQuotaFailure(history[Len(history)])
  /\ history[Len(history)].attempt >= 1
  /\ attempt < max_retries
  /\ raised = QUOTA_ERROR

\* C2: one invocation makes at most max_retries + 1 service calls; when every
\* call failed with a recoverable rate-limit error it has made exactly
\* max_retries + 1 calls and ends with the retries-exhausted error;
\* should_retry is false once attempt >= max_retries.
C2_BoundedCalls ==
  /\ Calls <= max_retries + 1
  /\ (attempt >= max_retries => ~should_retry(error_info, attempt, max_retries))
  /\ (pc = "done" /\ \A i \in 1..Len(history) :
                        history[i].op = "invoke" => IsRecoverableFailure(history[i]))
       => /\ Calls = max_retries + 1
          /\ raised = EXHAUSTED_ERROR
          /\ returned = None

\* C2 witness: three calls, all failed recoverably, with max_retries = 2
C2_Witness ==
  /\ pc = "done"
  /\ max_retries = 2
  /\ Calls = 3
  /\ \A i \in 1..Len(history) :
       history[i].op = "invoke" => IsRecoverableFailure(history[i])
  /\ raised = EXHAUSTED_ERROR

C3_Terminal ==
  \A i \in 1..Len(history) :
    (history[i].op = "invoke" /\ history[i].outcome = "Exception") =>
      /\ i = Len(history)
      /\ pc = "done"
      /\ raised = SERVICE_ERROR
      /\ returned = None
      /\ wait_time = 0

C3_NoClassification ==
  (/\ Len(history') = Len(history) + 1
   /\ history'[Len(history')].outcome = "Exception")
    => /\ error_info' = error_info
       /\ error_message' = error_message
       /\ now' = now
       /\ attempt' = attempt

\* C3: a service call that fails with an error other than a rate-limit error
\* ends the invocation at once with the service error, at whatever attempt:
\* the step classifies nothing and starts no sleep, and no call follows.
C3_ServiceErrorTerminal == []C3_Terminal /\ [][C3_NoClassification]_vars

\* C3 witness: the other error arrives on a retry, attempts remaining
C3_Witness ==
  /\ Len(history) >= 3
  /\ history[Len(history)].outcome = "Exception"
  /\ attempt >= 1
  /\ attempt < max_retries
  /\ raised = SERVICE_ERROR

\* C4: a recoverable rate-limit failure with attempts remaining is followed by
\* exactly one sleep and then by the next call, made with attempt one higher;
\* a success returns the result of the call that succeeded.  So calls and
\* sleeps alternate, starting and (when the invocation is over) ending with a
\* call: sleeps = calls - 1.
C4_SleepThenRetry ==
  /\ \A i \in 1..Len(history) :
       /\ (i % 2 = 1) => (history[i].op = "invoke" /\ history[i].attempt = (i - 1) \div 2)
       /\ (i % 2 = 0) => /\ history[i].op = "sleep"
                         /\ IsRecoverableFailure(history[i - 1])
                         /\ history[i].attempt = history[i - 1].attempt
                         /\ history[i].attempt < max_retries
  /\ (pc = "sleeping" => IsRecoverableFailure(history[Len(history)]))
  /\ (pc = "calling" /\ history # <<>> =>
        history[Len(history)].op = "sleep" /\ attempt = history[Len(history)].attempt + 1)
  /\ (pc = "done" => /\ history[Len(history)].op = "invoke"
                     /\ Sleeps = Calls - 1)
  /\ (returned # None => /\ pc = "done"
                         /\ history[Len(history)].outcome = returned[1])

\* C4 witness: two recoverable failures, two sleeps, then a success
C4_Witness ==
  /\ pc = "done"
  /\ returned # None
  /\ Calls = 3
  /\ Sleeps = 2

\* C5: the sleep at attempt a lasts w * 1.5^a seconds, w being the wait
\* suggested by the error that caused the backoff; for w = 60 the sleeps at
\* attempts 0, 1, 2 last 60, 90 and 135 seconds.
C5_BackoffGrowth ==
  \A i \in 1..Len(history) :
    history[i].op = "sleep" =>
      LET a == history[i].attempt
          w == history[i - 1].info.wait_seconds[1]
      IN  /\ history[i].ticks * Pow(2, a) = w * Pow(3, a) * Scale
          /\ history[i].at = history[i - 1].at + history[i].ticks
          /\ (w = 60 /\ a = 0 => history[i].ticks = 60 * Scale)
          /\ (w = 60 /\ a = 1 => history[i].ticks = 90 * Scale)
          /\ (w = 60 /\ a = 2 => history[i].ticks = 135 * Scale)

\* C5 witness: three sleeps of 60, 90 and 135 seconds
C5_Witness ==
  /\ Len(history) >= 6
  /\ history[2].ticks = 60 * Scale
  /\ history[4].ticks = 90 * Scale
  /\ history[6].ticks = 135 * Scale

\* the whole backoff of the recoverable failure e, in ticks, is d
IsFullBackoff(e, d) ==
  d * Pow(2, e.attempt) = e.info.wait_seconds[1] * Pow(3, e.attempt) * Scale

CancelledDuring(i) ==
  /\ history[i].op = "sleep"
  /\ history[i].cancelled
  /\ ~history[i - 1].cancelled

KnownDurations ==
  { [text |-> Phrases[5], seconds |-> 75], [text |-> Phrases[6], seconds |-> 338] }

HasDailyMarker(text) ==
  Contains(lower(text), TOKENS_PER_DAY) \/ Contains(lower(text), TPD)
HasMinuteMarker(text) ==
  Contains(lower(text), REQUESTS_PER_MINUTE) \/ Contains(lower(text), RPM)

\* C8: an error text that contains "tokens per day" is classified as the daily
\* token limit, not recoverable, with no wait, also when it contains a
\* per-minute marker or a retry duration.
C8_DailyFirst ==
  (pc = "parsed" /\ Contains(error_message, TOKENS_PER_DAY)) =>
    error_info = [type |-> "daily_token_limit", is_recoverable |-> FALSE,
                  wait_seconds |-> None, message |-> DAILY_MESSAGE]

\* C8 witness: a classified text with the daily marker, the per-minute marker
\* and a retry duration
C8_Witness ==
  /\ pc = "parsed"
  /\ Contains(error_message, TOKENS_PER_DAY)
  /\ \/ Contains(error_message, REQUESTS_PER_MINUTE)
     \/ \E d \in KnownDurations : Contains(error_message, d.text)
  /\ error_info.type = "daily_token_limit"

UnknownInfo ==
  [type |-> "unknown", is_recoverable |-> TRUE,
   wait_seconds |-> Some(30), message |-> UNKNOWN_MESSAGE]

\* C10 as claimed: an error text that contains neither "tokens per day" nor
\* "requests per minute" is classified unknown, recoverable, wait 30.
C10_Original ==
  (/\ pc = "parsed"
   /\ ~Contains(error_message, TOKENS_PER_DAY)
   /\ ~Contains(error_message, REQUESTS_PER_MINUTE)) => error_info = UnknownInfo

\* C10 amended: an error text that contains, in any letter case, none of
\* "tokens per day", "tpd", "requests per minute" and "rpm" is classified
\* unknown, recoverable, wait 30, also when it contains a retry duration.
C10_UnknownDefault ==
  (/\ pc = "parsed"
   /\ ~HasDailyMarker(error_message)
   /\ ~HasMinuteMarker(error_message)) => error_info = UnknownInfo

\* C10 witness: a classified text with a retry duration and no marker
C10_Witness ==
  /\ pc = "parsed"
  /\ ~HasDailyMarker(error_message)
  /\ ~HasMinuteMarker(error_message)
  /\ \E d \in KnownDurations : Contains(error_message, d.text)
  /\ error_info = UnknownInfo

\* C11: the classifier is total.  Every error text, the empty one included,
\* is classified without an exception, with a type among daily_token_limit,
\* requests_per_minute and unknown, and the wait is None exactly when the
\* error is not recoverable.
C11_Total ==
  pc = "parsed" =>
    /\ raised = ""
    /\ error_info.type \in {"daily_token_limit", "requests_per_minute", "unknown"}
    /\ error_info.is_recoverable \in BOOLEAN
    /\ (error_info.wait_seconds = None) <=> ~error_info.is_recoverable
    /\ (error_info.wait_seconds # None => error_info.wait_seconds[1] \in Nat)
    /\ error_info.message \in {DAILY_MESSAGE, RPM_MESSAGE, UNKNOWN_MESSAGE}

\* C11 witness: the empty text classified, as unknown with a wait
C11_Witness ==
  /\ pc = "parsed"
  /\ error_message = <<>>
  /\ error_info.type = "unknown"
  /\ error_info.wait_seconds # None

\* the weights the specification lists for an objective, in tenths
TableWeights(goal) ==
  CASE goal = "cash_back" -> <<10, 1, 5>>
    [] goal = "travel_points" -> <<1, 10, 5>>
    [] goal = "specific_discounts" -> <<3, 3, 25>>
    [] OTHER -> <<5, 5, 5>>

\* the rate of a card for a category: its entry for the category, else its
\* entry for "other", else 0
ExpectedRate(rates, category) ==
  IF \E k \in DOMAIN rates : k = lower(category) THEN rates[lower(category)]
  ELSE IF \E k \in DOMAIN rates : k = OTHER_CATEGORY THEN rates[OTHER_CATEGORY]
  ELSE 0

\* C12: total = w.cash*cashBack + w.points*pointsValue + w.benefits*benefitsValue
\* with cashBack = amount*cashRate, pointsValue = amount*pointsMultiplier*0.015,
\* benefitsValue = benefitCount*2.0 and w the vector of the objective:
\* (1.0, 0.1, 0.5) for cash_back, (0.1, 1.0, 0.5) for travel_points,
\* (0.3, 0.3, 2.5) for specific_discounts, (0.5, 0.5, 0.5) for balanced and
\* for an unrecognized objective.
C12_WeightedTotal ==
  pc = "scored" =>
    LET card == user_cards[1]
        t    == transaction_data
        b    == card_scores[1].breakdown
        w    == TableWeights(t.optimization_goal)
    IN  /\ b.cash_back
             = fmul(float(t.amount[1], t.amount[2]),
                    fratio(ExpectedRate(card.cash_back_rate, t.category), 100))
        /\ b.points
             = fmul(float(t.amount[1], t.amount[2]),
                    float(ExpectedRate(card.points_multiplier, t.category), 0))
        /\ b.points_value = fmul(b.points, fratio(15, 1000))
        /\ b.benefits_value = float(2 * Len(card.benefits), 0)
        /\ <<b.weights.cash, b.weights.points, b.weights.benefits>> = w
        /\ card_scores[1].value
             = fadd(fadd(fmul(fratio(w[1], 10), b.cash_back),
                         fmul(fratio(w[2], 10), b.points_value)),
                    fmul(fratio(w[3], 10), b.benefits_value))
        /\ b.total_value = card_scores[1].value

\* C12 witness: a card with cash back, points and benefits scored for an
\* unrecognized objective
C12_Witness ==
  /\ pc = "scored"
  /\ transaction_data.optimization_goal = "max_miles"
  /\ fless(FZERO, card_scores[1].breakdown.cash_back)
  /\ fless(FZERO, card_scores[1].breakdown.points)
  /\ card_scores[1].breakdown.benefits_count > 0
  /\ fless(FZERO, card_scores[1].value)

\* C13: the cash-back rate and the points multiplier are looked up each on its
\* own: the entry for the purchase category when the card has one, else the
\* entry for "other", else 0.
C13_RateFallback ==
  pc = "scored" =>
    LET card == user_cards[1]
        t    == transaction_data
        b    == card_scores[1].breakdown
        key  == lower(t.category)
        Rate(rates) ==
          IF key \in DOMAIN rates THEN rates[key]
          ELSE IF OTHER_CATEGORY \in DOMAIN rates THEN rates[OTHER_CATEGORY] ELSE 0
    IN  /\ b.cash_back
             = fmul(float(t.amount[1], t.amount[2]), fratio(Rate(card.cash_back_rate), 100))
        /\ b.points
             = fmul(float(t.amount[1], t.amount[2]), float(Rate(card.points_multiplier), 0))
        /\ (key \notin DOMAIN card.cash_back_rate /\ OTHER_CATEGORY \notin DOMAIN card.cash_back_rate
              => b.cash_back = FZERO)
        /\ (key \notin DOMAIN card.points_multiplier /\ OTHER_CATEGORY \notin DOMAIN card.points_multiplier
              => b.points = FZERO)

\* C13 witness: the cash-back rate falls back to "other" while the points
\* multiplier has no entry at all
C13_Witness ==
  /\ pc = "scored"
  /\ transaction_data.category = TRAVEL
  /\ DOMAIN user_cards[1].cash_back_rate = {DINING, OTHER_CATEGORY}
  /\ DOMAIN user_cards[1].points_multiplier = {}
  /\ fless(FZERO, card_scores[1].breakdown.cash_back)
  /\ card_scores[1].breakdown.points = FZERO

\* the position of a card in the list the request came with
InputPosition(card) == CHOOSE i \in 1..Len(user_cards) : user_cards[i] = card

\* the request went past the edge cases: its cards were scored and ranked
Ranked ==
  /\ pc # "start"
  /\ Len(user_cards) > 0
  /\ transaction_data.amount[1] > 0

\* the request ended with a recommendation built from a reply of the service
Recommended == pc = "returned" /\ returned # None

\* C14: the ranking is a permutation of the cards of the request in order of
\* non-increasing total value, cards of equal total value in the order they
\* had in the request; the recommended card is the first of the ranking.
C14_StableRanking ==
  /\ Ranked =>
       /\ Len(card_scores) = Len(user_cards)
       /\ {card_scores[i].card : i \in 1..Len(card_scores)}
            = {user_cards[i] : i \in 1..Len(user_cards)}
       /\ history = <<>> =>
            \A i \in 1..Len(card_scores) :
              card_scores[i].value
                = calculate_card_value(card_scores[i].card, transaction_data.amount,
                                       transaction_data.category,
                                       transaction_data.optimization_goal)[1]
       /\ \A i, j \in 1..Len(card_scores) :
            i < j =>
              /\ ~fless(card_scores[i].value, card_scores[j].value)
              /\ (card_scores[i].value = card_scores[j].value
                    => InputPosition(card_scores[i].card)
                         < InputPosition(card_scores[j].card))
  /\ Recommended =>
       /\ response[1].recommended_card[1].card_id = card_scores[1].card.card_id
       /\ response[1].recommended_card[1].card_name = card_scores[1].card.card_name

\* C14 witness: three cards, two of them of equal total value, ranked in
\* another order than the request listed them, and the first one recommended
C14_Witness ==
  /\ Recommended
  /\ Len(card_scores) = 3
  /\ \E i \in 1..2 : card_scores[i].value = card_scores[i + 1].value
  /\ card_scores[1].card # user_cards[1]
  /\ response[1].recommended_card[1].card_id = card_scores[1].card.card_id

\* the key under which a card's rate for a purchase of the category is stored
AppliedKey(rates, category) ==
  IF lower(category) \in DOMAIN rates THEN lower(category) ELSE OTHER_CATEGORY

\* two cards that differ in nothing that is scored but the cash-back rate
\* applied to a purchase of the category
SameButAppliedCashRate(c1, c2, category) ==
  /\ c1.points_multiplier = c2.points_multiplier
  /\ c1.benefits = c2.benefits
  /\ DOMAIN c1.cash_back_rate = DOMAIN c2.cash_back_rate
  /\ \A k \in DOMAIN c1.cash_back_rate :
       k # AppliedKey(c1.cash_back_rate, category)
         => c1.cash_back_rate[k] = c2.cash_back_rate[k]

\* C15 as stated: under the cash_back objective and for an amount > 0, of two
\* cards that differ only in the cash-back rate applied to the purchase
\* category the one with the higher rate is ranked before the other, wherever
\* the two stood in the request.
C15_Original ==
  (Ranked /\ transaction_data.optimization_goal = "cash_back") =>
    \A i, j \in 1..Len(card_scores) :
      LET ci == card_scores[i].card
          cj == card_scores[j].card
      IN  ( /\ SameButAppliedCashRate(ci, cj, transaction_data.category)
            /\ ExpectedRate(ci.cash_back_rate, transaction_data.category)
                 > ExpectedRate(cj.cash_back_rate, transaction_data.category) )
            => i < j

\* C15: under the cash_back objective and for an amount > 0, of two cards that
\* differ only in the cash-back rate applied to the purchase category the one
\* with the higher rate never has the lower total value, and is ranked behind
\* the other only when the two totals are the same float and it stood behind
\* the other in the request.
C15_HigherRateNotLower ==
  (Ranked /\ transaction_data.optimization_goal = "cash_back") =>
    \A i, j \in 1..Len(card_scores) :
      LET ci == card_scores[i].card
          cj == card_scores[j].card
      IN  ( /\ SameButAppliedCashRate(ci, cj, transaction_data.category)
            /\ ExpectedRate(ci.cash_back_rate, transaction_data.category)
                 > ExpectedRate(cj.cash_back_rate, transaction_data.category) )
            => /\ ~fless(card_scores[i].value, card_scores[j].value)
               /\ \/ i < j
                  \/ /\ card_scores[i].value = card_scores[j].value
                     /\ InputPosition(cj) < InputPosition(ci)

\* C15 witness: the card with the higher dining rate came last in the request,
\* behind its twin with the lower rate and a third card, and is ranked before
\* the twin
C15_Witness ==
  /\ Ranked
  /\ transaction_data.optimization_goal = "cash_back"
  /\ Len(user_cards) = 3
  /\ SameButAppliedCashRate(user_cards[3], user_cards[1], transaction_data.category)
  /\ ExpectedRate(user_cards[3].cash_back_rate, transaction_data.category)
       > ExpectedRate(user_cards[1].cash_back_rate, transaction_data.category)
  /\ \E i, j \in 1..Len(card_scores) :
       /\ i < j
       /\ card_scores[i].card = user_cards[3]
       /\ card_scores[j].card = user_cards[1]

\* C16 as stated: a request with amount 0 ends with the zero-amount sentinel
\* (card name "Any card", expected value, cash back and points all 0),
\* whatever the card list, the category, the objective and self.llm are.
C16_Original ==
  (pc # "start" /\ transaction_data.amount[1] = 0) =>
    /\ pc = "returned"
    /\ response = Some(ZERO_AMOUNT_RESULT)

\* C16: a request with amount 0 and at least one card ends with the
\* zero-amount sentinel (card name "Any card", expected value, cash back and
\* points all 0), whatever the cards, the category, the objective and self.llm
\* are; with an empty card list it ends with the "No cards available" error.
C16_ZeroSentinel ==
  (pc # "start" /\ transaction_data.amount[1] = 0) =>
    /\ pc = "returned"
    /\ response # None
    /\ Len(user_cards) > 0 =>
         /\ "error" \notin DOMAIN response[1]
         /\ response[1].recommended_card # None
         /\ response[1].recommended_card[1].card_name = "Any card"
         /\ response[1].recommended_card[1].expected_value = 0
         /\ response[1].recommended_card[1].cash_back_earned = 0
         /\ response[1].recommended_card[1].points_earned = 0
    /\ Len(user_cards) = 0 =>
         /\ response[1] = NO_CARDS_RESULT
         /\ response[1].recommended_card = None

\* C16 witness: the sentinel for three cards, an unknown category and no LLM
C16_Witness ==
  /\ pc = "returned"
  /\ transaction_data.amount[1] = 0
  /\ Len(user_cards) = 3
  /\ transaction_data.category = CRYPTO
  /\ ~llm
  /\ response = Some(ZERO_AMOUNT_RESULT)

\* C17: in a request with amount = 0, amount < 0 or an empty card list the
\* service is never called, no backoff sleep is taken and no card is scored;
\* a service call happens only for amount > 0 and a non-empty list.
C17_NoCallOnEdgeCases ==
  /\ (transaction_data.amount[1] <= 0 \/ Len(user_cards) = 0) =>
       /\ history = <<>>
       /\ card_scores = <<>>
       /\ pc \in {"start", "returned"}
       /\ attempt = 0
       /\ now = 0
  /\ Calls + Sleeps > 0 => (transaction_data.amount[1] > 0 /\ Len(user_cards) > 0)

\* C17 witness: a request with amount 0 on a system with an LLM has returned
\* without a call
C17_Witness ==
  /\ pc = "returned"
  /\ llm
  /\ transaction_data.amount[1] = 0
  /\ Len(user_cards) > 0
  /\ Calls = 0
  /\ card_scores = <<>>

\* C18: a request with amount < 0 ends with an error result that has no
\* recommended card, for every card list (an empty one too), category and
\* objective, with no card scored and no service call; with at least one card
\* the error is "Invalid amount".
C18_NegativeRejected ==
  (pc # "start" /\ transaction_data.amount[1] < 0) =>
    /\ pc = "returned"
    /\ response # None
    /\ "error" \in DOMAIN response[1]
    /\ response[1].recommended_card = None
    /\ Len(user_cards) > 0 => response[1] = INVALID_AMOUNT_RESULT
    /\ card_scores = <<>>
    /\ history = <<>>

\* C18 witness: a negative amount rejected for a list of three cards
C18_Witness ==
  /\ pc = "returned"
  /\ transaction_data.amount[1] < 0
  /\ Len(user_cards) = 3
  /\ response = Some(INVALID_AMOUNT_RESULT)

\* C19: with amount > 0, at least one card and no LLM configured the request
\* ends by raising the "AI service unavailable" RuntimeError: no result is
\* returned, and the service is not called.
C19_FailFast ==
  (pc # "start" /\ transaction_data.amount[1] > 0 /\ Len(user_cards) > 0 /\ ~llm) =>
    /\ pc = "raised"
    /\ raised = AI_UNAVAILABLE
    /\ response = None
    /\ history = <<>>

\* C19 witness: the error raised after the cards were ranked
C19_Witness ==
  /\ pc = "raised"
  /\ ~llm
  /\ raised = AI_UNAVAILABLE
  /\ Len(card_scores) = 3
  /\ response = None

\* C20: the recommended card, the alternatives and their order, and every
\* numeric field of a recommendation are those of the ranking of the cards of
\* the request, whatever text the service returned and after however many
\* retries; of the explanation only the appended AI text depends on the reply.
C20_DecidedByScores ==
  Recommended =>
    LET ranking == sort_by_value(score_cards(user_cards, transaction_data))
        rc      == response[1].recommended_card[1]
        alts    == response[1].alternative_cards
    IN  /\ rc.card_id = ranking[1].card.card_id
        /\ rc.card_name = ranking[1].card.card_name
        /\ rc.expected_value = round2(ranking[1].value)
        /\ rc.cash_back_earned = round2(ranking[1].breakdown.cash_back)
        /\ rc.points_earned = round2(ranking[1].breakdown.points)
        /\ rc.confidence_score = 95
        /\ response[1].total_savings = round2(ranking[1].value)
        /\ Len(alts) = Min(2, Len(ranking) - 1)
        /\ \A k \in 1..Len(alts) :
             /\ alts[k].card_id = ranking[k + 1].card.card_id
             /\ alts[k].card_name = ranking[k + 1].card.card_name
             /\ alts[k].expected_value = round2(ranking[k + 1].value)
             /\ alts[k].cash_back_earned = round2(ranking[k + 1].breakdown.cash_back)
             /\ alts[k].points_earned = round2(ranking[k + 1].breakdown.points)
        /\ rc.explanation.lead
             = build_enhanced_explanation(Slice(ranking, 0, 3), transaction_data, "").lead
        /\ rc.explanation.vs
             = build_enhanced_explanation(Slice(ranking, 0, 3), transaction_data, "").vs
        /\ rc.explanation.ai \in {"", strip(returned[1])}

\* C20 witness: after a retry the service returned a text that names Card B,
\* and the recommendation is another card, with two alternatives
C20_Witness ==
  /\ Recommended
  /\ attempt >= 1
  /\ HasSubstring(returned[1], "Card B")
  /\ response[1].recommended_card[1].card_id # "card_b"
  /\ Len(response[1].alternative_cards) = 2
  /\ response[1].recommended_card[1].explanation.ai # ""

Composed == pc = "composed"

\* the explanation the ranking gets with an empty AI text
DeterministicPortion ==
  enhanced(build_enhanced_explanation(Slice(card_scores, 0, 3), transaction_data, ""))

\* C22: the composed explanation is the deterministic portion alone for an AI
\* text of at most 20 characters, and the deterministic portion followed by
\* the first 300 characters of the AI text (all of it when it is shorter)
\* for a longer one; it is never more than 300 characters longer than the
\* deterministic portion.
C22_AppendsTruncated ==
  Composed =>
    LET text == returned[1]
    IN  /\ Len(text) <= 20 => response[1] = DeterministicPortion
        /\ Len(text) > 20 =>
             response[1] = DeterministicPortion \o SubSeq(text, 1, Min(300, Len(text)))
        /\ Len(response[1]) <= Len(DeterministicPortion) + 300
        /\ Len(DeterministicPortion) > 0

\* C22 witness: an AI text of more than 300 characters was cut to 300
C22_Witness ==
  /\ Composed
  /\ Len(returned[1]) > 300
  /\ Len(response[1]) = Len(DeterministicPortion) + 300
  /\ SubSeq(response[1], Len(DeterministicPortion) + 1, Len(response[1]))
       = SubSeq(returned[1], 1, 300)

\* the invocation ended with an error
Failed == pc = "done" /\ returned = None

\* the last step of the invocation
LastStep == history[Len(history)]

\* C23: an invocation that fails raises one of three different errors, decided
\* by its last failure: the quota error iff that was a rate-limit error that
\* is not recoverable, the retries-exhausted error iff it was a recoverable
\* rate-limit error at attempt = max_retries, the service error iff it was not
\* a rate-limit error.
C23_ThreeOutcomes ==
  Failed =>
    /\ Len(history) > 0
    /\ LastStep.op = "invoke"
    /\ raised \in {QUOTA_ERROR, EXHAUSTED_ERROR, SERVICE_ERROR}
    /\ Cardinality({QUOTA_ERROR, EXHAUSTED_ERROR, SERVICE_ERROR}) = 3
    /\ raised = QUOTA_ERROR <=> IsQuotaFailure(LastStep)
    /\ raised = EXHAUSTED_ERROR
         <=> IsRecoverableFailure(LastStep) /\ LastStep.attempt = max_retries
    /\ raised = SERVICE_ERROR <=> LastStep.outcome = "Exception"
    /\ IsRecoverableFailure(LastStep) => LastStep.attempt = max_retries

\* C23 witness: a daily-quota error at the last attempt, after the retries
\* were used up by recoverable errors, is reported as the quota error
C23_Witness ==
  /\ Failed
  /\ max_retries >= 1
  /\ attempt = max_retries
  /\ IsQuotaFailure(LastStep)
  /\ raised = QUOTA_ERROR

\* a step of get_recommendation that scores a request whose category is not
\* one of the valid ones
ScoresInvalidCategory ==
  /\ pc = "start"
  /\ pc' # "start"
  /\ Len(user_cards) > 0
  /\ transaction_data.amount[1] > 0
  /\ lower(transaction_data.category) \notin valid_categories

\* C24: a request whose category is not one of the valid categories is not
\* rejected: its cards are all scored, and each card's value and breakdown
\* are those calculate_card_value gives it for the category 'other'.
C24_Step ==
  ScoresInvalidCategory =>
    /\ pc' \in {"calling", "raised"}
    /\ pc' = "raised" => raised' = AI_UNAVAILABLE /\ ~llm
    /\ response' = None
    /\ Len(card_scores') = Len(user_cards)
    /\ \A i \in 1..Len(user_cards) :
         \E j \in 1..Len(card_scores') :
           LET r == calculate_card_value(user_cards[i], transaction_data.amount,
                                         OTHER_CATEGORY,
                                         transaction_data.optimization_goal)
           IN  /\ card_scores'[j].card = user_cards[i]
               /\ card_scores'[j].value = r[1]
               /\ card_scores'[j].breakdown = r[2]

C24_InvalidCategoryScored == [][C24_Step]_vars

\* C24 witness: a request for a category no request has unless it was
\* normalized, scored with a card whose rate for 'other' is not its dining rate
C24_Witness ==
  /\ Ranked
  /\ transaction_data.category = OTHER_CATEGORY
  /\ OTHER_CATEGORY \notin RecCategories
  /\ \E j \in 1..Len(card_scores) :
       /\ card_scores[j].card = CardA
       /\ card_scores[j].breakdown
            = calculate_card_value(CardA, transaction_data.amount, OTHER_CATEGORY,
                                   transaction_data.optimization_goal)[2]
       /\ card_scores[j].breakdown
            # calculate_card_value(CardA, transaction_data.amount, DINING,
                                   transaction_data.optimization_goal)[2]

\* C25: a request with an empty card list ends with the "No cards available"
\* error result, which has no recommended card, whatever its amount and
\* objective are; nothing is scored for it, and a ranking that was computed
\* has at least one entry.
C25_EmptyListError ==
  /\ (pc # "start" /\ Len(user_cards) = 0) =>
       /\ pc = "returned"
       /\ raised = ""
       /\ response = Some(NO_CARDS_RESULT)
       /\ response[1].error = "No cards available"
       /\ response[1].recommended_card = None
       /\ card_scores = <<>>
       /\ history = <<>>
  /\ Ranked => Len(card_scores) >= 1

\* C25 witness: the error result for an empty list, a negative amount and
\* the travel objective
C25_Witness ==
  /\ pc = "returned"
  /\ Len(user_cards) = 0
  /\ transaction_data.amount[1] < 0
  /\ transaction_data.optimization_goal = "travel_points"
  /\ response = Some(NO_CARDS_RESULT)

\* the card of a ranking entry earns cash back or points
EarnsSomething(item) ==
  fless(FZERO, item.breakdown.cash_back) \/ fless(FZERO, item.breakdown.points)

\* the "vs." clause of the composed explanation
ComparisonClause ==
  build_enhanced_explanation(Slice(card_scores, 0, 3), transaction_data, returned[1]).vs

\* C26: the comparison clause of the explanation never holds more than two
\* figures, and when the ranking has a second and a third card that each earn
\* cash back or points, the clause names both of them.
C26_NamesBothRunnersUp ==
  Composed =>
    /\ Len(ComparisonClause) <= 2
    /\ HasSubstring(response[1], join_comparisons(ComparisonClause))
    /\ (/\ Len(card_scores) >= 3
        /\ EarnsSomething(card_scores[2])
        /\ EarnsSomething(card_scores[3]))
         => /\ HasSubstring(join_comparisons(ComparisonClause),
                            card_scores[2].card.card_name)
            /\ HasSubstring(join_comparisons(ComparisonClause),
                            card_scores[3].card.card_name)

\* C27: every rate-limit error of an invocation is classified from its own
\* text; a daily-quota error ends the invocation with the quota error at the
\* call where it arrives, whatever came before and however many retries
\* remain; every sleep lasts the backoff of the wait of the error just before.
C27_ClassifiedAfresh ==
  /\ (Len(history) > 0 /\ LastStep.outcome = "RateLimitError") =>
       /\ error_info = parse_rate_limit_error(error_message)
       /\ LastStep.info = parse_rate_limit_error(error_message)
  /\ \A i \in 1..Len(history) :
       /\ IsQuotaFailure(history[i]) =>
            /\ i = Len(history)
            /\ pc = "done"
            /\ raised = QUOTA_ERROR
            /\ attempt = history[i].attempt
       /\ history[i].op = "sleep" =>
            /\ i > 1
            /\ IsRecoverableFailure(history[i - 1])
            /\ history[i - 1].attempt = history[i].attempt
            /\ history[i].info = history[i - 1].info
            /\ history[i].ticks
                 = wait_with_backoff(history[i - 1].info, history[i - 1].attempt)

\* C27 witness: two recoverable errors with different waits, each followed by
\* its own backoff, then a daily-quota error that ends the invocation with a
\* retry remaining
C27_Witness ==
  /\ Failed
  /\ Len(history) = 5
  /\ IsRecoverableFailure(history[1])
  /\ history[2].op = "sleep"
  /\ IsRecoverableFailure(history[3])
  /\ history[3].info.wait_seconds # history[1].info.wait_seconds
  /\ history[4].op = "sleep"
  /\ history[4].ticks = wait_with_backoff(history[3].info, 1)
  /\ history[4].ticks # wait_with_backoff(history[1].info, 1)
  /\ IsQuotaFailure(history[5])
  /\ raised = QUOTA_ERROR
  /\ attempt < max_retries

\* the number of sleeps among the first n steps of a history
SleepsBefore(h, n) == Cardinality({i \in 1..n : h[i].op = "sleep"})

\* the locals of an invocation follow from its own steps alone
OwnRetryState(l) ==
  /\ l.attempt = SleepsBefore(l.history, Len(l.history))
  /\ l.attempt <= l.max_retries
  /\ Cardinality({i \in 1..Len(l.history) : l.history[i].op = "invoke"})
       <= l.max_retries + 1
  /\ l.history = <<>> => l.pc = "calling" /\ l.attempt = 0
  /\ l.pc = "sleeping" => l.wait_time = wait_with_backoff(l.error_info, l.attempt)
  /\ \A i \in 1..Len(l.history) :
       /\ l.history[i].attempt = SleepsBefore(l.history, i - 1)
       /\ l.history[i].op = "sleep" =>
            /\ i > 1
            /\ l.history[i].ticks
                 = wait_with_backoff(l.history[i - 1].info, SleepsBefore(l.history, i - 1))
       /\ IsRecoverableFailure(l.history[i]) =>
            \/ i < Len(l.history)
            \/ l.pc = "sleeping"
            \/ l.pc = "done" /\ l.attempt = l.max_retries /\ l.raised = EXHAUSTED_ERROR

\* a step of one invocation leaves the locals of the other as they are, and
\* a call that starts has attempt 0
C28_Step ==
  /\ (other' # other) => (other' = Some(locals) /\ locals' = other[1])
  /\ (pc = "done" /\ pc' = "calling" /\ other' = other) =>
       /\ attempt' = 0
       /\ history' = <<>>
       /\ max_retries' = max_retries

\* C28: the retry state belongs to one invocation. A call that starts after
\* another ended starts at attempt 0, and with two invocations in progress on
\* the one system, the attempts each has left and the length of each of its
\* sleeps follow from its own failures only.
C28_LocalRetryState ==
  /\ [](OwnRetryState(locals) /\ (other # None => OwnRetryState(other[1])))
  /\ [][C28_Step]_vars

\* C28 witness: one invocation starts at attempt 0 while the other, after
\* two failures, is in its second backoff
C28_Witness ==
  /\ other # None
  /\ pc = "calling"
  /\ attempt = 0
  /\ history = <<>>
  /\ other[1].pc = "sleeping"
  /\ other[1].attempt = 1
  /\ other[1].max_retries = DEFAULT_MAX_RETRIES
  /\ max_retries = MaxOtherRetries
  /\ Len(other[1].history) = 3

\* the invocation has ended with a result or with one of the three errors
EndedClassified ==
  /\ pc = "done"
  /\ \/ returned # None /\ raised = ""
     \/ returned = None /\ raised \in {QUOTA_ERROR, EXHAUSTED_ERROR, SERVICE_ERROR}

\* C29: for max_retries >= 0 and whatever the service answers, an invocation
\* that starts calling at attempt 0 ends, with a result or with one of the
\* three classified errors, and stays ended; the RuntimeError after the loop,
\* "Unexpected error in LLM retry logic", is never raised.
C29_Terminates ==
  /\ (pc = "calling" /\ attempt = 0) ~> EndedClassified
  /\ [](EndedClassified => []EndedClassified)
  /\ [](raised # UNEXPECTED_ERROR)
  /\ [](pc = "calling" => attempt <= max_retries)

\* C29 witness: the longest invocation, every call failing with a
\* recoverable error, has ended with the retries-exhausted error
C29_Witness ==
  /\ EndedClassified
  /\ max_retries = MaxRetriesBound
  /\ Calls = max_retries + 1
  /\ Sleeps = max_retries
  /\ raised = EXHAUSTED_ERROR

\* C30: get_recommendation leaves its arguments as the caller passed them, on
\* every path: no step of it changes the list of cards, its order, or the
\* merchant, amount, category and optimization goal of the transaction.
C30_InputsUnchanged ==
  [][/\ user_cards' = user_cards
     /\ transaction_data'.merchant = transaction_data.merchant
     /\ transaction_data'.amount = transaction_data.amount
     /\ transaction_data'.category = transaction_data.category
     /\ transaction_data'.optimization_goal = transaction_data.optimization_goal]_vars

====
